---------------------------- MODULE Spec2Model ----------------------------
(***************************************************************************)
(* UK Capital Recommender System.                                          *)
(*                                                                         *)
(* Two call chains are modelled, as they exist in the repository:          *)
(*   - the Orchestrator (main.py), whose process_recommendation_request    *)
(*     runs its own _simulate_* steps over a four-entry source list;       *)
(*   - the agents (agents/*.py): BusinessAnalyzer.analyze_business,        *)
(*     FundingResearcher.research_funding_sources and                      *)
(*     RecommendationMatcher.generate_matches over the nine-entry          *)
(*     funding_database.                                                   *)
(* In Spec and MatcherSpec there is one caller, so a call of one chain     *)
(* never interleaves with another call.  In ConcurrentSpec a second caller *)
(* uses the same Orchestrator and the same agents, and the steps of its    *)
(* calls interleave with the steps of the first caller's.  In RefreshSpec   *)
(* the one caller also calls FundingResearcher.refresh_market_data, before *)
(* analyze_business or between it and research_funding_sources.            *)
(*                                                                         *)
(* Numbers.  Money is in whole pounds.  A float score x is represented by  *)
(* an integer in a fixed unit:                                             *)
(*     sub-assessments, creditworthiness, readiness   x * 10^5   (U5)      *)
(*     dimension scores (compatibility, ...)          x * 10^7   (U7)      *)
(*     overall_score                                  x * 10^9   (U9)      *)
(* Weights are in 1/100.  Sums of weighted terms are exact; a product or a *)
(* quotient that does not fit the unit is rounded down to it.  Percentages *)
(* of broker_commission are in 1/10 of a percent point, profit_margin in   *)
(* 1/100 (0.15 is 15).  A timeline string "a-b weeks" is represented by    *)
(* its two parsed numbers.                                                 *)
(***************************************************************************)
EXTENDS Integers, Sequences, FiniteSets, TLC

(***************************************************************************)
(* Units                                                                   *)
(***************************************************************************)
U5 == 10^5
U7 == 10^7
U9 == 10^9

Min(a, b) == IF a <= b THEN a ELSE b
Max(a, b) == IF a >= b THEN a ELSE b
Abs(a) == IF a >= 0 THEN a ELSE 0 - a

\* dict.get(key, default)
Get(d, k, default) == IF k \in DOMAIN d THEN d[k] ELSE default

\* x in list
InSeq(x, s) == \E i \in 1..Len(s) : s[i] = x

RECURSIVE SeqSum(_)
SeqSum(s) == IF s = <<>> THEN 0 ELSE Head(s) + SeqSum(Tail(s))

(***************************************************************************)
(* config.py                                                               *)
(***************************************************************************)
MAX_RECOMMENDATIONS == 5
\* MIN_MATCH_SCORE = 0.6, in U9
MIN_MATCH_SCORE == 600000000
DIVERSITY_REQUIREMENT == 2

\* weights that add up to 1.10
SCORING_WEIGHTS_heavy ==
  [compatibility |-> 50, approval_probability |-> 35,
   commercial_value |-> 15, strategic_fit |-> 10]

\* SCORING_WEIGHTS, in 1/100
SCORING_WEIGHTS ==
  [compatibility |-> 40, approval_probability |-> 35,
   commercial_value |-> 15, strategic_fit |-> 10]

UK_SECTORS ==
  [technology            |-> [risk_level |-> "medium", growth_potential |-> "high"],
   manufacturing         |-> [risk_level |-> "medium", growth_potential |-> "medium"],
   retail                |-> [risk_level |-> "high",   growth_potential |-> "medium"],
   professional_services |-> [risk_level |-> "low",    growth_potential |-> "medium"],
   healthcare            |-> [risk_level |-> "low",    growth_potential |-> "high"],
   construction          |-> [risk_level |-> "high",   growth_potential |-> "medium"],
   finance               |-> [risk_level |-> "medium", growth_potential |-> "medium"],
   education             |-> [risk_level |-> "low",    growth_potential |-> "low"]]

UK_REGIONS ==
  [london           |-> [business_density |-> "very_high", funding_availability |-> "excellent"],
   south_east       |-> [business_density |-> "high",      funding_availability |-> "good"],
   north_west       |-> [business_density |-> "medium",    funding_availability |-> "good"],
   scotland         |-> [business_density |-> "medium",    funding_availability |-> "good"],
   yorkshire        |-> [business_density |-> "medium",    funding_availability |-> "fair"],
   west_midlands    |-> [business_density |-> "medium",    funding_availability |-> "fair"],
   wales            |-> [business_density |-> "low",       funding_availability |-> "fair"],
   northern_ireland |-> [business_density |-> "low",       funding_availability |-> "limited"]]

\* ERROR_MESSAGES[ERROR_CODES["INVALID_INPUT"]]
INVALID_INPUT_MESSAGE == "Invalid business profile data provided"


(***************************************************************************)
(* Python numbers                                                          *)
(***************************************************************************)
\* round(x, n): x in a unit of 10^-(n+k), result in 10^-n; ties go to even
RoundDiv(x, d) ==
  LET q == x \div d
      r == x % d
  IN  IF 2 * r > d THEN q + 1
      ELSE IF 2 * r < d THEN q
      ELSE IF q % 2 = 0 THEN q ELSE q + 1

(***************************************************************************)
(* main.py : request records                                               *)
(*                                                                         *)
(* A raw request (business_data) carries its field values and three sets   *)
(* of field names: the fields that are absent, those present with value    *)
(* None, and those present with a value of the wrong type.  "Wrong type"   *)
(* stands for a value on which the first typed use of the field raises:    *)
(* a non-string company_name or location, an unhashable sector, a          *)
(* non-numeric string for annual_revenue, employees or funding_amount, a   *)
(* non-number business_age.                                                *)
(***************************************************************************)
required_fields ==
  <<"company_name", "sector", "annual_revenue", "employees", "location",
    "funding_amount">>

\* data[field] is unusable: None or of the wrong type
Unusable(data, field) == field \in (data.null \cup data.wrong_type)

\* business_data.get('company_name', 'unknown').replace(' ', '_').lower()
BusinessIdOf(name) ==
  CASE name = "TechStart Solutions Ltd"     -> "techstart_solutions_ltd"
    [] name = "Manchester Manufacturing Co" -> "manchester_manufacturing_co"
    [] name = "Test Company Ltd"            -> "test_company_ltd"
    [] OTHER                                -> name

\* line 65 raises AttributeError when company_name is present and not a string
BusinessIdRaises(data) ==
  "company_name" \notin data.absent /\ Unusable(data, "company_name")

business_id_of(data) ==
  IF "company_name" \in data.absent THEN "unknown"
  ELSE BusinessIdOf(data.company_name)

\* _validate_input
validate_input(data) ==
  \A i \in 1..Len(required_fields) :
     /\ required_fields[i] \notin data.absent
     /\ required_fields[i] \notin data.null

\* BusinessProfile.__init__ : float() / int() of a non-numeric string raises
BusinessProfileRaises(data) ==
  \E f \in {"annual_revenue", "employees", "funding_amount"} : Unusable(data, f)

\* BusinessProfile.__init__ ; bad = fields stored as None or with a wrong type
BusinessProfile(data) ==
  [company_name   |-> data.company_name,
   sector         |-> data.sector,
   annual_revenue |-> data.annual_revenue,
   employees      |-> data.employees,
   location       |-> data.location,
   business_age   |-> IF "business_age" \in data.absent THEN 1
                      ELSE data.business_age,
   funding_amount |-> data.funding_amount,
   financials     |-> IF "financials" \in data.absent
                      THEN [absent |-> {"profit_margin", "cash_flow_months", "debt_to_equity"},
                            null |-> {}, profit_margin |-> 0,
                            cash_flow_months |-> 0, debt_to_equity |-> 0]
                      ELSE data.financials,
   bad            |-> (data.null \cup data.wrong_type) \ data.absent]

\* _create_error_result
create_error_result(business_id, message) ==
  [business_id      |-> business_id,
   recommendations  |-> <<>>,
   total_processed  |-> 0,
   confidence_level |-> "none",
   success          |-> FALSE,
   errors           |-> <<message>>]

\* the envelope of the except branch without its errors entry
exception_result_without_errors(business_id, message) ==
  [business_id      |-> business_id,
   recommendations  |-> <<>>,
   total_processed  |-> 0,
   confidence_level |-> "low",
   success          |-> FALSE]

\* the except branch of process_recommendation_request
exception_result(business_id, message) ==
  [business_id      |-> business_id,
   recommendations  |-> <<>>,
   total_processed  |-> 0,
   confidence_level |-> "low",
   success          |-> FALSE,
   errors           |-> <<message>>]

(***************************************************************************)
(* main.py : the Orchestrator's simulated steps                            *)
(***************************************************************************)
\* the exception _simulate_business_analysis raises, or "none"
SimAnalysisError(profile) ==
  IF "business_age" \in profile.bad THEN "TypeError"
  ELSE IF "sector" \in profile.bad THEN "TypeError"
  ELSE IF "location" \in profile.bad THEN "AttributeError"
  ELSE "none"

SimStage(age) ==
  IF age <= 2 THEN "startup" ELSE IF age <= 7 THEN "growth" ELSE "mature"

\* revenue_score * 0.6 + age_score * 0.4, in U5
SimCreditworthiness(profile) ==
  LET revenue_score == Min(profile.annual_revenue \div 10, U5)
      age_score     == Min(profile.business_age * 10000, U5)
  IN  (60 * revenue_score + 40 * age_score) \div 100

\* _simulate_business_analysis
\* funding_ratio = funding_amount / max(annual_revenue, 1) is compared by
\* cross multiplication
simulate_business_analysis(profile) ==
  LET stage    == SimStage(profile.business_age)
      revenue1 == Max(profile.annual_revenue, 1)
      amount   == profile.funding_amount
      cred     == SimCreditworthiness(profile)
      sector_risk == Get(Get(UK_SECTORS, profile.sector, <<>>), "risk_level", "medium")
  IN  [business_profile |->
         [risk_level        |-> sector_risk,
          stage             |-> stage,
          creditworthiness  |-> cred,
          growth_trajectory |-> IF stage = "startup" THEN "accelerating" ELSE "stable",
          funding_readiness |-> IF 2 * amount <= revenue1 THEN 80000
                                ELSE IF amount <= revenue1 THEN 60000 ELSE 40000,
          sector_attractiveness |->
             Get(Get(UK_SECTORS, profile.sector, <<>>), "growth_potential", "medium")],
       funding_indicators |->
         [amount_justification |-> IF amount <= revenue1 THEN "reasonable" ELSE "optimistic",
          repayment_capacity   |-> cred,
          asset_backing        |-> IF profile.sector \in {"manufacturing", "construction"}
                                   THEN 70000 ELSE 40000,
          management_strength  |-> 75000],
       matching_tags |-> <<profile.sector, stage, profile.location>>,
       red_flags |-> IF amount > 2 * revenue1 THEN <<"high_funding_ratio">> ELSE <<>>,
       recommended_funding_types |->
          IF stage = "mature" THEN <<"bank_loan", "asset_finance">>
          ELSE <<"angel_investment", "vc">>]

\* the source list built inside _simulate_funding_research
simulated_sources ==
  << [source_id |-> "barclays_business_loan", name |-> "Barclays Business Loan",
      type |-> "bank_loan", amount_range |-> [min |-> 5000, max |-> 250000],
      broker_commission |-> [min |-> 15, max |-> 30],
      timeline |-> [min |-> 2, max |-> 4], current_appetite |-> "selective",
      sectors |-> <<"all">>, min_trading_years |-> 2],
     [source_id |-> "uk_angel_network", name |-> "UK Angel Investment Network",
      type |-> "angel_investment", amount_range |-> [min |-> 25000, max |-> 500000],
      broker_commission |-> [min |-> 30, max |-> 70],
      timeline |-> [min |-> 4, max |-> 12], current_appetite |-> "aggressive",
      sectors |-> <<"technology", "healthcare">>, min_trading_years |-> 0],
     [source_id |-> "lloyds_asset_finance", name |-> "Lloyds Asset Finance",
      type |-> "asset_finance", amount_range |-> [min |-> 10000, max |-> 2000000],
      broker_commission |-> [min |-> 20, max |-> 50],
      timeline |-> [min |-> 1, max |-> 3], current_appetite |-> "aggressive",
      sectors |-> <<"manufacturing", "construction", "transport">>,
      min_trading_years |-> 1],
     [source_id |-> "crowdcube", name |-> "Crowdcube Equity Crowdfunding",
      type |-> "crowdfunding", amount_range |-> [min |-> 10000, max |-> 1000000],
      broker_commission |-> [min |-> 30, max |-> 80],
      timeline |-> [min |-> 2, max |-> 8], current_appetite |-> "neutral",
      sectors |-> <<"consumer_products", "technology">>, min_trading_years |-> 1] >>

\* the three nested checks of _simulate_funding_research
SimEligible(source, profile) ==
  /\ source.amount_range.min <= profile.funding_amount
  /\ profile.funding_amount <= source.amount_range.max
  /\ profile.business_age >= source.min_trading_years
  /\ (source.sectors = <<"all">> \/ InSeq(profile.sector, source.sectors))

\* _simulate_funding_research
simulate_funding_research(profile, intelligence) ==
  SelectSeq(simulated_sources, LAMBDA source : SimEligible(source, profile))

\* _calculate_compatibility, in U7
\* abs(amount - mid) < mid * 0.5 with mid = (min + max) / 2, times 4
Sim_calculate_compatibility(source, profile, intelligence) ==
  LET span   == source.amount_range.min + source.amount_range.max
      sector == IF InSeq(profile.sector, Get(source, "sectors", <<>>)) THEN 1 ELSE 0
      amount == IF 2 * Abs(2 * profile.funding_amount - span) < span THEN 1 ELSE 0
  IN  Min((8 + sector + amount) * (U7 \div 10), U7)

\* _calculate_probability, in U7
Sim_calculate_probability(source, intelligence) ==
  LET base_rate ==
        CASE source.type = "bank_loan"        -> 65
          [] source.type = "asset_finance"    -> 75
          [] source.type = "angel_investment" -> 25
          [] source.type = "venture_capital"  -> 15
          [] source.type = "crowdfunding"     -> 45
          [] OTHER                            -> 50
      appetite == Get(source, "current_appetite", "neutral")
      multiplier ==
        CASE appetite = "aggressive" -> 12
          [] appetite = "neutral"    -> 10
          [] appetite = "selective"  -> 8
          [] appetite = "cautious"   -> 6
          [] OTHER                   -> 10
  IN  Min(((base_rate * multiplier) \div 10) * intelligence.business_profile.creditworthiness,
          U7)

\* (commission.min + commission.max) / 2, in 1/100 of a percent point
AvgCommission(source) ==
  LET commission == Get(source, "broker_commission", [min |-> 0, max |-> 0])
  IN  (commission.min + commission.max) * 5

\* min((avg_commission / 100) * funding_amount / 10000, 1.0), in unit u
CommissionScore(source, amount, u) ==
  LET avg == AvgCommission(source)
  IN  IF avg * (amount \div 100) >= 1000000 THEN u
      ELSE Min((avg * amount) \div (100000000 \div u), u)

\* _calculate_commercial_value, in U7
Sim_calculate_commercial_value(source, profile) ==
  CommissionScore(source, profile.funding_amount, U7)

\* _calculate_strategic_fit, in U7
Sim_calculate_strategic_fit(source, profile) ==
  IF source.type \in {"angel_investment", "venture_capital"} THEN 8 * (U7 \div 10)
  ELSE IF source.type \in {"bank_loan", "asset_finance"} THEN 6 * (U7 \div 10)
  ELSE 4 * (U7 \div 10)

\* sorted(matches, key=overall_score, reverse=True): stable, descending
RECURSIVE InsertByScore(_, _)
InsertByScore(sorted, m) ==
  IF sorted = <<>> THEN <<m>>
  ELSE IF Head(sorted).overall_score >= m.overall_score
       THEN <<Head(sorted)>> \o InsertByScore(Tail(sorted), m)
       ELSE <<m>> \o sorted

RECURSIVE SortByScore(_)
SortByScore(ms) ==
  IF ms = <<>> THEN <<>>
  ELSE InsertByScore(SortByScore(SubSeq(ms, 1, Len(ms) - 1)), ms[Len(ms)])

\* list[:n]
Take(s, n) == SubSeq(s, 1, Min(n, Len(s)))

\* the match entry _simulate_recommendation_matching builds for one source
SimMatch(source, intelligence, profile) ==
  LET compatibility == Sim_calculate_compatibility(source, profile, intelligence)
      probability   == Sim_calculate_probability(source, intelligence)
      commercial    == Sim_calculate_commercial_value(source, profile)
      strategic     == Sim_calculate_strategic_fit(source, profile)
  IN  [source        |-> source,
       overall_score |-> compatibility * SCORING_WEIGHTS.compatibility
                         + probability * SCORING_WEIGHTS.approval_probability
                         + commercial * SCORING_WEIGHTS.commercial_value
                         + strategic * SCORING_WEIGHTS.strategic_fit,
       compatibility |-> compatibility,
       probability   |-> probability,
       commercial    |-> commercial,
       strategic     |-> strategic,
       \* probability * 0.7 + compatibility * 0.3, in 10^-8
       success_probability |-> 7 * probability + 3 * compatibility]

\* the threshold test with > in place of >=
SimQualifiesStrict(match) == match.overall_score > MIN_MATCH_SCORE

\* if overall_score >= CONFIG.MIN_MATCH_SCORE
SimQualifies(match) == match.overall_score >= MIN_MATCH_SCORE

\* the matching step without matches.sort
simulate_recommendation_matching_unsorted(intelligence, sources, profile) ==
  LET scored  == [i \in 1..Len(sources) |-> SimMatch(sources[i], intelligence, profile)]
      matches == SelectSeq(scored, SimQualifies)
  IN  Take(matches, MAX_RECOMMENDATIONS)

\* _simulate_recommendation_matching
simulate_recommendation_matching(intelligence, sources, profile) ==
  LET scored  == [i \in 1..Len(sources) |-> SimMatch(sources[i], intelligence, profile)]
      matches == SelectSeq(scored, SimQualifies)
  IN  Take(SortByScore(matches), MAX_RECOMMENDATIONS)

\* _format_recommendations; match_score and success_probability in 1/100
format_recommendations(matches, profile) ==
  [i \in 1..Len(matches) |->
     [rank                |-> i,
      funding_source      |-> matches[i].source.name,
      type                |-> matches[i].source.type,
      match_score         |-> RoundDiv(matches[i].overall_score, U9 \div 100),
      success_probability |-> RoundDiv(matches[i].success_probability, U7 \div 10),
      timeline            |-> matches[i].source.timeline,
      min_trading_years   |-> Get(matches[i].source, "min_trading_years", 0)]]

\* sum(match_score) / len(recommendations) is computed in binary64, left to
\* right over the list, which is in descending order.  These are the lists of
\* at most three scores from 0.60 to 1.00 (in 1/100) for which the quotient
\* computed that way is below the exact mean; for each the exact mean is 0.65
\* and the computed one 0.6499999999999999.  No request gets more than three
\* recommendations: no sector is in the list of more than two of the simulated
\* sources besides the one that takes all sectors.
FloatMeanShort ==
  { <<70, 60>>, <<69, 61>>, <<73, 61, 61>>, <<72, 62, 61>>, <<71, 63, 61>>,
    <<70, 64, 61>>, <<69, 65, 61>>, <<69, 63, 63>> }

\* avg_score >= t / 100, for the list of match_score values in 1/100
AvgAtLeast(scores, t) ==
  \/ SeqSum(scores) > t * Len(scores)
  \/ SeqSum(scores) = t * Len(scores) /\ scores \notin FloatMeanShort

\* _calculate_confidence_level
calculate_confidence_level(recommendations) ==
  LET scores == [i \in 1..Len(recommendations) |-> recommendations[i].match_score]
  IN  IF recommendations = <<>> THEN "none"
      ELSE IF AvgAtLeast(scores, 85) THEN "very_high"
      ELSE IF AvgAtLeast(scores, 75) THEN "high"
      ELSE IF AvgAtLeast(scores, 65) THEN "medium"
      ELSE "low"

\* the success envelope with total_processed counting the recommendations
success_result_counting_recommendations(business_id, recommendations, available_sources) ==
  [business_id      |-> business_id,
   recommendations  |-> recommendations,
   total_processed  |-> Len(recommendations),
   confidence_level |-> calculate_confidence_level(recommendations),
   success          |-> TRUE]

\* the success envelope of process_recommendation_request (execution_time,
\* a wall clock reading, is left out)
success_result(business_id, recommendations, available_sources) ==
  [business_id      |-> business_id,
   recommendations  |-> recommendations,
   total_processed  |-> Len(available_sources),
   confidence_level |-> calculate_confidence_level(recommendations),
   success          |-> TRUE]

(***************************************************************************)
(* agents/business_analyzer.py                                             *)
(*                                                                         *)
(* profile.financials is a record of the three optional entries with the   *)
(* sets of the entries that are absent and of those present with None.     *)
(***************************************************************************)
\* financials.get(key, default)
FinGet(profile, key, default) ==
  IF key \in profile.financials.absent THEN default ELSE profile.financials[key]

\* some step inside the try block of analyze_business raises
AnalyzerRaises(profile) ==
  \/ profile.bad \cap {"sector", "location", "business_age"} # {}
  \/ profile.financials.null \cap {"profit_margin", "cash_flow_months"} # {}

_determine_company_size(employees, revenue) ==
  IF employees <= 9 /\ revenue <= 632000 THEN "micro"
  ELSE IF employees <= 49 /\ revenue <= 10200000 THEN "small"
  ELSE IF employees <= 249 /\ revenue <= 50000000 THEN "medium"
  ELSE "large"

\* profit_score * 0.4 + cash_score * 0.3 + revenue_score * 0.3, in U5;
\* cash_score = min(cash_flow / 6, 1.0) is carried times 6
_calculate_creditworthiness(profit_margin, cash_flow, revenue) ==
  LET profit_score  == Min(profit_margin * 10000, U5)
      cash_score6   == Min(cash_flow * U5, 6 * U5)
      revenue_score == Min(revenue \div 10, U5)
  IN  (240 * profit_score + 30 * cash_score6 + 180 * revenue_score) \div 600

\* min(revenue * margin / 12 / 10000, 1.0), in U5
_calculate_repayment_capacity(revenue, margin) ==
  IF (revenue \div 1000) * margin >= 12000 THEN U5
  ELSE Min((revenue * margin) \div 120, U5)

\* in U5
_estimate_asset_backing(revenue, sector) ==
  LET base_ratio ==
        IF sector \in {"manufacturing", "construction"} THEN 30000 + 20000
        ELSE IF sector \in {"technology", "professional_services"} THEN 30000 - 10000
        ELSE 30000
  IN  Min(base_ratio, U5)

\* in U5
_calculate_sector_attractiveness(sector_info) ==
  LET growth_potential == Get(sector_info, "growth_potential", "medium")
      risk_level       == Get(sector_info, "risk_level", "medium")
      growth_score ==
        CASE growth_potential = "high"   -> 80000
          [] growth_potential = "medium" -> 60000
          [] growth_potential = "low"    -> 40000
          [] OTHER                       -> 50000
      risk_score ==
        CASE risk_level = "low"    -> 80000
          [] risk_level = "medium" -> 60000
          [] risk_level = "high"   -> 30000
          [] OTHER                 -> 50000
  IN  (growth_score + risk_score) \div 2

_determine_business_stage(profile) ==
  LET age     == profile.business_age
      revenue == profile.annual_revenue
  IN  IF age <= 2 /\ revenue < 500000 THEN "startup"
      ELSE IF age <= 7 \/ revenue < 2000000 THEN "growth"
      ELSE "mature"

\* funding_ratio = funding_amount / max(annual_revenue, 1), compared by
\* cross multiplication
_assess_amount_justification(profile) ==
  LET revenue1 == Max(profile.annual_revenue, 1)
      amount   == profile.funding_amount
  IN  IF 2 * amount <= revenue1 THEN "conservative"
      ELSE IF amount <= revenue1 THEN "reasonable"
      ELSE IF amount <= 2 * revenue1 THEN "optimistic"
      ELSE "excessive"

_identify_red_flags(profile) ==
  (IF profile.funding_amount > 2 * Max(profile.annual_revenue, 1)
   THEN <<"excessive_funding_request">> ELSE <<>>)
  \o (IF profile.business_age < 1 THEN <<"very_new_business">> ELSE <<>>)

_assess_sector_risk(sector) ==
  Get(Get(UK_SECTORS, sector, <<>>), "risk_level", "medium")

_assess_geographic_risk(location) ==
  LET business_density ==
        Get(Get(UK_REGIONS, location, <<>>), "business_density", "medium")
  IN  CASE business_density \in {"very_high", "high"} -> "low"
        [] business_density = "medium"                -> "medium"
        [] business_density = "low"                   -> "high"
        [] OTHER                                      -> "medium"

_assess_financial_risk(profile) ==
  LET cash_flow     == FinGet(profile, "cash_flow_months", 2)
      profit_margin == FinGet(profile, "profit_margin", 5)
      risk_factors  == (IF cash_flow < 2 THEN 1 ELSE 0)
                       + (IF profit_margin < 5 THEN 1 ELSE 0)
  IN  IF risk_factors >= 2 THEN "high"
      ELSE IF risk_factors = 1 THEN "medium"
      ELSE "low"

risk_scores == [low |-> 1, medium |-> 2, high |-> 3]

\* the overall risk taken to be the worst of the three ratings
_calculate_overall_risk_worst(sector, geographic, financial) ==
  LET worst == Max(risk_scores[sector],
                   Max(risk_scores[geographic], risk_scores[financial]))
  IN  IF worst = 1 THEN "low" ELSE IF worst = 2 THEN "medium" ELSE "high"

\* avg_score = total_score / 3 <= 1.5 (<= 2.5), compared times 6
_calculate_overall_risk(sector, geographic, financial) ==
  LET total_score == risk_scores[sector] + risk_scores[geographic]
                     + risk_scores[financial]
  IN  IF 2 * total_score <= 9 THEN "low"
      ELSE IF 2 * total_score <= 15 THEN "medium"
      ELSE "high"

_analyze_demographics(profile) ==
  LET sector_info == Get(UK_SECTORS, profile.sector, <<>>)
      region_info == Get(UK_REGIONS, profile.location, <<>>)
  IN  [sector                |-> profile.sector,
       sector_risk           |-> Get(sector_info, "risk_level", "medium"),
       sector_attractiveness |-> _calculate_sector_attractiveness(sector_info),
       location              |-> profile.location,
       regional_advantage    |-> Get(region_info, "funding_availability", "fair"),
       business_age          |-> profile.business_age,
       company_size          |-> _determine_company_size(profile.employees,
                                                         profile.annual_revenue)]

_analyze_financials(profile) ==
  LET profit_margin    == FinGet(profile, "profit_margin", 10)
      cash_flow_months == FinGet(profile, "cash_flow_months", 2)
  IN  [creditworthiness   |-> _calculate_creditworthiness(profit_margin, cash_flow_months,
                                                          profile.annual_revenue),
       repayment_capacity |-> _calculate_repayment_capacity(profile.annual_revenue,
                                                            profit_margin),
       asset_backing      |-> _estimate_asset_backing(profile.annual_revenue,
                                                      profile.sector),
       profit_margin      |-> profit_margin,
       cash_flow_months   |-> cash_flow_months]

_analyze_risk_profile(profile) ==
  LET sector_risk     == _assess_sector_risk(profile.sector)
      geographic_risk == _assess_geographic_risk(profile.location)
      financial_risk  == _assess_financial_risk(profile)
  IN  [sector_risk     |-> sector_risk,
       geographic_risk |-> geographic_risk,
       financial_risk  |-> financial_risk,
       overall_risk    |-> _calculate_overall_risk(sector_risk, geographic_risk,
                                                   financial_risk)]

\* min(max(readiness, 0.0), 1.0), in U5
_calculate_funding_readiness(demographic, financial, risk) ==
  LET financial_score == financial.creditworthiness
      maturity_score  == Min(demographic.business_age * 10000, U5)
      sector_score    == demographic.sector_attractiveness
      risk_score      == IF risk.overall_risk = "low" THEN U5
                         ELSE IF risk.overall_risk = "medium" THEN 70000
                         ELSE 40000
      readiness       == (40 * financial_score + 25 * maturity_score
                          + 20 * sector_score + 15 * risk_score) \div 100
  IN  Min(Max(readiness, 0), U5)

_generate_matching_tags(profile, demographic) ==
  <<"sector_business:" \o profile.sector,
    "enterprise:" \o demographic.company_size,
    "location:" \o profile.location>>
  \o (IF profile.business_age <= 2 THEN <<"startup">>
      ELSE IF profile.business_age <= 7 THEN <<"growth_stage">>
      ELSE <<"established">>)
  \o (IF profile.annual_revenue > 1000000 THEN <<"high_revenue">> ELSE <<>>)

\* list(set(recommendations)): the order of the result is not fixed, so the
\* list is carried as a set
_recommend_funding_types(profile, readiness) ==
  IF readiness >= 80000
  THEN (IF profile.funding_amount >= 250000
        THEN {"venture_capital", "angel_investment"} ELSE {})
       \cup {"bank_loan", "asset_finance"}
  ELSE IF readiness >= 60000
  THEN {"bank_loan", "asset_finance", "crowdfunding"}
       \cup (IF profile.sector = "technology" THEN {"angel_investment"} ELSE {})
  ELSE {"asset_finance", "crowdfunding", "government_grant"}

\* the fallback record without the sector among its matching_tags
_create_fallback_analysis_untagged(profile) ==
  [business_profile |->
     [risk_level |-> "medium", stage |-> "unknown", creditworthiness |-> 50000,
      growth_trajectory |-> "stable", funding_readiness |-> 40000,
      sector_attractiveness |-> 50000],
   funding_indicators |->
     [amount_justification |-> "unknown", repayment_capacity |-> 50000,
      asset_backing |-> 30000, management_strength |-> 50000],
   matching_tags |-> <<"fallback_analysis">>,
   red_flags |-> <<"incomplete_data">>,
   recommended_funding_types |-> {"asset_finance", "crowdfunding"}]

\* the fallback record with a risk_level of low
_create_fallback_analysis_low_risk(profile) ==
  [business_profile |->
     [risk_level            |-> "low",
      stage                 |-> "unknown",
      creditworthiness      |-> 50000,
      growth_trajectory     |-> "stable",
      funding_readiness     |-> 40000,
      sector_attractiveness |-> 50000],
   funding_indicators |->
     [amount_justification |-> "unknown",
      repayment_capacity   |-> 50000,
      asset_backing        |-> 30000,
      management_strength  |-> 50000],
   matching_tags |-> <<profile.sector, "fallback_analysis">>,
   red_flags |-> <<"incomplete_data">>,
   recommended_funding_types |-> {"asset_finance", "crowdfunding"}]

_create_fallback_analysis(profile) ==
  [business_profile |->
     [risk_level            |-> "medium",
      stage                 |-> "unknown",
      creditworthiness      |-> 50000,
      growth_trajectory     |-> "stable",
      funding_readiness     |-> 40000,
      sector_attractiveness |-> 50000],
   funding_indicators |->
     [amount_justification |-> "unknown",
      repayment_capacity   |-> 50000,
      asset_backing        |-> 30000,
      management_strength  |-> 50000],
   matching_tags |-> <<profile.sector, "fallback_analysis">>,
   red_flags |-> <<"incomplete_data">>,
   recommended_funding_types |-> {"asset_finance", "crowdfunding"}]

\* analyze_business: the try block, or the fallback when a step raises
analyze_business(profile) ==
  IF AnalyzerRaises(profile) THEN _create_fallback_analysis(profile)
  ELSE
    LET demographic_analysis == _analyze_demographics(profile)
        financial_analysis   == _analyze_financials(profile)
        risk_analysis        == _analyze_risk_profile(profile)
        funding_readiness    == _calculate_funding_readiness(
                                  demographic_analysis, financial_analysis, risk_analysis)
    IN  [business_profile |->
           [risk_level            |-> risk_analysis.overall_risk,
            stage                 |-> _determine_business_stage(profile),
            creditworthiness      |-> financial_analysis.creditworthiness,
            growth_trajectory     |-> IF profile.business_age <= 3 THEN "accelerating"
                                      ELSE "stable",
            funding_readiness     |-> funding_readiness,
            sector_attractiveness |-> demographic_analysis.sector_attractiveness],
         funding_indicators |->
           [amount_justification |-> _assess_amount_justification(profile),
            repayment_capacity   |-> financial_analysis.repayment_capacity,
            asset_backing        |-> financial_analysis.asset_backing,
            management_strength  |-> 75000],
         matching_tags |-> _generate_matching_tags(profile, demographic_analysis),
         red_flags |-> _identify_red_flags(profile),
         recommended_funding_types |->
            _recommend_funding_types(profile, funding_readiness)]

(***************************************************************************)
(* agents/funding_research.py                                              *)
(*                                                                         *)
(* max_debt_ratio is in 1/10.  Entries keep the optional keys they have in *)
(* the source; interest rates, equity ranges, success factors and phone    *)
(* numbers, which no operation reads, are left out.                        *)
(***************************************************************************)
\* _initialize_funding_database
initial_funding_database ==
  << [source_id |-> "barclays_business_loan", name |-> "Barclays Business Loan",
      type |-> "bank_loan", category |-> "traditional_banking",
      amount_range |-> [min |-> 5000, max |-> 250000],
      sectors |-> <<"all">>,
      excluded_sectors |-> <<"adult_entertainment", "gambling", "weapons">>,
      min_trading_years |-> 2, min_annual_revenue |-> 50000, max_debt_ratio |-> 25,
      approval_timeline |-> [min |-> 2, max |-> 4],
      broker_commission |-> [min |-> 15, max |-> 30],
      contact |-> [email |-> "business@barclays.co.uk"],
      availability_status |-> "accepting_applications",
      current_appetite |-> "selective", last_updated |-> "2025-09-06"],
     [source_id |-> "lloyds_commercial_finance", name |-> "Lloyds Commercial Finance",
      type |-> "asset_finance", category |-> "traditional_banking",
      amount_range |-> [min |-> 10000, max |-> 2000000],
      sectors |-> <<"manufacturing", "construction", "transport", "technology">>,
      excluded_sectors |-> <<"retail", "hospitality">>,
      min_trading_years |-> 1, min_annual_revenue |-> 100000,
      asset_requirement |-> "equipment_vehicles_property",
      approval_timeline |-> [min |-> 1, max |-> 3],
      broker_commission |-> [min |-> 20, max |-> 50],
      contact |-> [email |-> "commercial@lloydsbank.com"],
      availability_status |-> "accepting_applications",
      current_appetite |-> "aggressive", last_updated |-> "2025-09-06"],
     [source_id |-> "funding_circle", name |-> "Funding Circle Business Loans",
      type |-> "bank_loan", category |-> "alternative_lending",
      amount_range |-> [min |-> 10000, max |-> 500000],
      sectors |-> <<"all">>,
      excluded_sectors |-> <<"gambling", "adult_entertainment", "cryptocurrency">>,
      min_trading_years |-> 2, min_annual_revenue |-> 120000, credit_score_min |-> 600,
      approval_timeline |-> [min |-> 1, max |-> 2],
      broker_commission |-> [min |-> 10, max |-> 25],
      contact |-> [email |-> "brokers@fundingcircle.com"],
      availability_status |-> "accepting_applications",
      current_appetite |-> "neutral", last_updated |-> "2025-09-06"],
     [source_id |-> "uk_angel_network", name |-> "UK Angel Investment Network",
      type |-> "angel_investment", category |-> "equity_investment",
      amount_range |-> [min |-> 25000, max |-> 500000],
      sectors |-> <<"technology", "healthcare", "fintech", "clean_energy">>,
      excluded_sectors |-> <<"retail", "hospitality", "construction">>,
      min_trading_years |-> 0, max_trading_years |-> 5,
      approval_timeline |-> [min |-> 4, max |-> 12],
      broker_commission |-> [min |-> 30, max |-> 70],
      contact |-> [email |-> "deals@ukangelnetwork.co.uk"],
      availability_status |-> "accepting_applications",
      current_appetite |-> "aggressive", last_updated |-> "2025-09-06"],
     [source_id |-> "seedcamp_vc", name |-> "Seedcamp Venture Capital",
      type |-> "venture_capital", category |-> "equity_investment",
      amount_range |-> [min |-> 250000, max |-> 5000000],
      sectors |-> <<"technology", "ai", "fintech", "healthtech">>,
      excluded_sectors |-> <<"traditional_retail", "manufacturing">>,
      min_trading_years |-> 0, max_trading_years |-> 7,
      approval_timeline |-> [min |-> 8, max |-> 24],
      broker_commission |-> [min |-> 20, max |-> 50],
      contact |-> [email |-> "applications@seedcamp.com"],
      availability_status |-> "accepting_applications",
      current_appetite |-> "selective", last_updated |-> "2025-09-06"],
     [source_id |-> "crowdcube", name |-> "Crowdcube Equity Crowdfunding",
      type |-> "crowdfunding", category |-> "alternative_funding",
      amount_range |-> [min |-> 10000, max |-> 1000000],
      sectors |-> <<"consumer_products", "technology", "food_drink", "retail">>,
      excluded_sectors |-> <<"gambling", "adult_entertainment">>,
      min_trading_years |-> 1,
      approval_timeline |-> [min |-> 2, max |-> 8],
      broker_commission |-> [min |-> 30, max |-> 80],
      contact |-> [email |-> "partnerships@crowdcube.com"],
      availability_status |-> "accepting_applications",
      current_appetite |-> "neutral", last_updated |-> "2025-09-06"],
     [source_id |-> "innovate_uk_grant", name |-> "Innovate UK Smart Grants",
      type |-> "government_grant", category |-> "government_funding",
      amount_range |-> [min |-> 25000, max |-> 500000],
      sectors |-> <<"technology", "healthcare", "clean_energy", "advanced_manufacturing">>,
      excluded_sectors |-> <<"retail", "hospitality", "traditional_services">>,
      min_trading_years |-> 0, innovation_requirement |-> TRUE,
      approval_timeline |-> [min |-> 6, max |-> 16],
      broker_commission |-> [min |-> 50, max |-> 150],
      contact |-> [email |-> "support@innovateuk.ukri.org"],
      availability_status |-> "seasonal_rounds",
      current_appetite |-> "neutral", last_updated |-> "2025-09-06"],
     [source_id |-> "london_family_office", name |-> "London Family Office Network",
      type |-> "family_office", category |-> "private_wealth",
      amount_range |-> [min |-> 100000, max |-> 5000000],
      sectors |-> <<"technology", "healthcare", "real_estate", "luxury_goods">>,
      excluded_sectors |-> <<"gambling", "weapons", "tobacco">>,
      min_trading_years |-> 2, relationship_requirement |-> TRUE,
      approval_timeline |-> [min |-> 4, max |-> 16],
      broker_commission |-> [min |-> 10, max |-> 40],
      contact |-> [email |-> "opportunities@londonfamilyoffice.com"],
      availability_status |-> "relationship_based",
      current_appetite |-> "selective", last_updated |-> "2025-09-06"],
     [source_id |-> "scottish_enterprise", name |-> "Scottish Enterprise Growth Finance",
      type |-> "regional_grant", category |-> "government_funding",
      amount_range |-> [min |-> 50000, max |-> 2000000],
      sectors |-> <<"technology", "manufacturing", "life_sciences", "energy">>,
      geographic_requirement |-> <<"scotland">>,
      excluded_sectors |-> <<"retail", "hospitality">>,
      min_trading_years |-> 1,
      approval_timeline |-> [min |-> 8, max |-> 12],
      broker_commission |-> [min |-> 20, max |-> 60],
      contact |-> [email |-> "finance@scottish-enterprise.com"],
      availability_status |-> "accepting_applications",
      current_appetite |-> "aggressive", last_updated |-> "2025-09-06"] >>

\* _get_current_market_conditions (interest rates, economic indicators and
\* the timestamp, which no operation reads, are left out)
_get_current_market_conditions ==
  [lending_appetite |->
     [traditional_banks |-> "selective", alternative_lenders |-> "neutral",
      investors |-> "cautious", government |-> "supportive"],
   sector_preferences |->
     [hot     |-> <<"technology", "clean_energy", "healthcare">>,
      neutral |-> <<"manufacturing", "professional_services">>,
      cold    |-> <<"retail", "hospitality", "construction">>]]

\* profile.sector in sectors; an unhashable (wrong type) sector equals no string
SectorIn(profile, sectors) ==
  "sector" \notin profile.bad /\ InSeq(profile.sector, sectors)

\* the amount check with exclusive bounds
PassesAmountAndSectorStrict(source, profile) ==
  /\ source.amount_range.min < profile.funding_amount
  /\ profile.funding_amount < source.amount_range.max
  /\ (source.sectors = <<"all">> \/ SectorIn(profile, source.sectors))
  /\ ~SectorIn(profile, Get(source, "excluded_sectors", <<>>))

\* the amount and sector checks without the excluded_sectors test
PassesAmountAndListedSector(source, profile) ==
  /\ source.amount_range.min <= profile.funding_amount
  /\ profile.funding_amount <= source.amount_range.max
  /\ (source.sectors = <<"all">> \/ SectorIn(profile, source.sectors))

\* the amount and sector checks of _filter_by_eligibility
PassesAmountAndSector(source, profile) ==
  /\ source.amount_range.min <= profile.funding_amount
  /\ profile.funding_amount <= source.amount_range.max
  /\ (source.sectors = <<"all">> \/ SectorIn(profile, source.sectors))
  /\ ~SectorIn(profile, Get(source, "excluded_sectors", <<>>))

\* the trading years and revenue checks of _filter_by_eligibility
PassesAgeAndRevenue(source, profile) ==
  /\ Get(source, "min_trading_years", 0) <= profile.business_age
  /\ profile.business_age <= Get(source, "max_trading_years", 999)
  /\ profile.annual_revenue >= Get(source, "min_annual_revenue", 0)

\* the geographic check of _filter_by_eligibility
PassesGeography(source, profile) ==
  LET geo_req == Get(source, "geographic_requirement", <<>>)
  IN  geo_req = <<>> \/ InSeq(profile.location, geo_req)

\* one source passes every check of _filter_by_eligibility
IsEligible(source, profile) ==
  /\ PassesAmountAndSector(source, profile)
  /\ PassesAgeAndRevenue(source, profile)
  /\ PassesGeography(source, profile)

\* _filter_by_eligibility raises: a comparison with a business_age that is
\* not a number, or .lower() on a location that is not a string
EligibilityRaises(database, profile) ==
  \E i \in 1..Len(database) :
     /\ PassesAmountAndSector(database[i], profile)
     /\ \/ "business_age" \in profile.bad
        \/ /\ PassesAgeAndRevenue(database[i], profile)
           /\ Get(database[i], "geographic_requirement", <<>>) # <<>>
           /\ "location" \in profile.bad

_filter_by_eligibility(database, profile) ==
  SelectSeq(database, LAMBDA source : IsEligible(source, profile))

_get_source_risk_tolerance(source) ==
  CASE source.type \in {"bank_loan", "asset_finance"}                       -> "low"
    [] source.type \in {"government_grant", "family_office"}                -> "medium"
    [] source.type \in {"angel_investment", "venture_capital", "crowdfunding"} -> "high"
    [] OTHER                                                                -> "medium"

\* the matrix with medium risk accepted at low tolerance
_is_risk_compatible_lenient(source_tolerance, business_risk) ==
  CASE source_tolerance = "low"    -> business_risk \in {"low", "medium"}
    [] source_tolerance = "medium" -> business_risk \in {"low", "medium"}
    [] source_tolerance = "high"   -> business_risk \in {"low", "medium", "high"}
    [] OTHER                       -> FALSE

_is_risk_compatible(source_tolerance, business_risk) ==
  CASE source_tolerance = "low"    -> business_risk \in {"low"}
    [] source_tolerance = "medium" -> business_risk \in {"low", "medium"}
    [] source_tolerance = "high"   -> business_risk \in {"low", "medium", "high"}
    [] OTHER                       -> FALSE

\* creditworthiness * 850 >= credit_score_min
_meets_credit_requirements(source, intelligence) ==
  intelligence.business_profile.creditworthiness * 850
     >= Get(source, "credit_score_min", 0) * U5

\* the check with a default business debt ratio of 3.0
_meets_financial_requirements_default_three(source, intelligence) ==
  LET max_debt_ratio      == Get(source, "max_debt_ratio", 50)
      business_debt_ratio == Get(intelligence.funding_indicators, "debt_to_equity", 30)
      min_readiness       == IF source.type \in {"bank_loan", "asset_finance"}
                             THEN 40000 ELSE 60000
  IN  IF business_debt_ratio > max_debt_ratio THEN FALSE
      ELSE intelligence.business_profile.funding_readiness >= min_readiness

\* debt ratios in 1/10
_meets_financial_requirements(source, intelligence) ==
  LET max_debt_ratio      == Get(source, "max_debt_ratio", 50)
      business_debt_ratio == Get(intelligence.funding_indicators, "debt_to_equity", 10)
      min_readiness       == IF source.type \in {"bank_loan", "asset_finance"}
                             THEN 40000 ELSE 60000
  IN  IF business_debt_ratio > max_debt_ratio THEN FALSE
      ELSE intelligence.business_profile.funding_readiness >= min_readiness

_filter_by_intelligence(sources, intelligence) ==
  SelectSeq(sources, LAMBDA source :
     /\ _is_risk_compatible(_get_source_risk_tolerance(source),
                            intelligence.business_profile.risk_level)
     /\ _meets_credit_requirements(source, intelligence)
     /\ _meets_financial_requirements(source, intelligence))

\* source["category"].split("_")[0]
CategoryPrefix(category) ==
  CASE category = "traditional_banking" -> "traditional"
    [] category = "alternative_lending" -> "alternative"
    [] category = "alternative_funding" -> "alternative"
    [] category = "equity_investment"   -> "equity"
    [] category = "government_funding"  -> "government"
    [] category = "private_wealth"      -> "private"
    [] OTHER                            -> category

_get_sector_market_status(source, market) ==
  LET source_sectors == Get(source, "sectors", <<>>)
  IN  IF \E i \in 1..Len(source_sectors) :
            InSeq(source_sectors[i], market.sector_preferences.hot)
      THEN "hot"
      ELSE IF \E i \in 1..Len(source_sectors) :
                 InSeq(source_sectors[i], market.sector_preferences.cold)
      THEN "cold"
      ELSE "neutral"

\* every timeline of the catalog holds "week" and parses as "a-b weeks"
_adjust_timeline(original_timeline, appetite, sector_status) ==
  IF appetite = "aggressive" /\ sector_status = "hot"
  THEN LET min_weeks == Max(1, original_timeline.min - 1)
       IN  [min |-> min_weeks, max |-> Max(min_weeks, original_timeline.max - 2)]
  ELSE IF appetite = "selective" \/ sector_status = "cold"
  THEN [min |-> original_timeline.min + 1, max |-> original_timeline.max + 3]
  ELSE original_timeline

\* source.copy() with further keys set
WithKeys(source, extra) ==
  [k \in DOMAIN source \cup DOMAIN extra |->
     IF k \in DOMAIN extra THEN extra[k] ELSE source[k]]

_apply_market_conditions(sources, market) ==
  [i \in 1..Len(sources) |->
     LET source        == sources[i]
         appetite      == Get(market.lending_appetite,
                              CategoryPrefix(source.category), "neutral")
         sector_status == _get_sector_market_status(source, market)
     IN  WithKeys(source,
           [market_appetite          |-> appetite,
            sector_market_status     |-> sector_status,
            market_adjusted_timeline |->
               _adjust_timeline(source.approval_timeline, appetite, sector_status)])]

\* priority_score of _prioritize_by_availability, in 1/100
priority_score(source) ==
  LET status == Get(source, "availability_status", "")
      status_score ==
        CASE status = "accepting_applications" -> 10
          [] status = "selective"              -> 7
          [] status = "seasonal_rounds"        -> 5
          [] status = "relationship_based"     -> 3
          [] status = "limited_capacity"       -> 1
          [] OTHER                             -> 0
      appetite == Get(source, "current_appetite", "")
      appetite_score ==
        CASE appetite = "aggressive" -> 8
          [] appetite = "neutral"    -> 5
          [] appetite = "selective"  -> 3
          [] appetite = "cautious"   -> 1
          [] OTHER                   -> 0
  IN  100 * status_score + 100 * appetite_score + AvgCommission(source)

\* sorted(sources, key=priority_score, reverse=True): stable, descending
RECURSIVE InsertByPriority(_, _)
InsertByPriority(sorted, source) ==
  IF sorted = <<>> THEN <<source>>
  ELSE IF priority_score(Head(sorted)) >= priority_score(source)
       THEN <<Head(sorted)>> \o InsertByPriority(Tail(sorted), source)
       ELSE <<source>> \o sorted

RECURSIVE _prioritize_by_availability(_)
_prioritize_by_availability(sources) ==
  IF sources = <<>> THEN <<>>
  ELSE InsertByPriority(
         _prioritize_by_availability(SubSeq(sources, 1, Len(sources) - 1)),
         sources[Len(sources)])

generic_bank_loan ==
  [source_id |-> "generic_bank_loan", name |-> "UK Business Bank Loan",
   type |-> "bank_loan", amount_range |-> [min |-> 5000, max |-> 250000],
   approval_timeline |-> [min |-> 4, max |-> 8],
   broker_commission |-> [min |-> 10, max |-> 30],
   contact |-> [email |-> "info@ukbusinessbank.co.uk"],
   availability_status |-> "unknown", current_appetite |-> "neutral"]

generic_asset_finance ==
  [source_id |-> "generic_asset_finance", name |-> "UK Asset Finance",
   type |-> "asset_finance", amount_range |-> [min |-> 10000, max |-> 1000000],
   approval_timeline |-> [min |-> 2, max |-> 4],
   broker_commission |-> [min |-> 20, max |-> 50],
   contact |-> [email |-> "info@ukassetfinance.co.uk"],
   availability_status |-> "unknown", current_appetite |-> "neutral"]

\* the fallback list with the asset finance entry only above 10,000
_get_fallback_sources_above(profile) ==
  <<generic_bank_loan>>
  \o (IF profile.funding_amount > 10000 THEN <<generic_asset_finance>> ELSE <<>>)

_get_fallback_sources(profile) ==
  <<generic_bank_loan>>
  \o (IF profile.funding_amount >= 10000 THEN <<generic_asset_finance>> ELSE <<>>)

\* the try block of research_funding_sources
ResearchMainPath(database, market, profile, intelligence) ==
  LET eligible_sources      == _filter_by_eligibility(database, profile)
      intelligence_filtered == _filter_by_intelligence(eligible_sources, intelligence)
      market_adjusted       == _apply_market_conditions(intelligence_filtered, market)
  IN  _prioritize_by_availability(market_adjusted)

\* appetites of _update_source_availability
appetites == <<"aggressive", "neutral", "selective", "cautious">>

\* the loop writing availability_status where the code writes current_appetite
_update_source_availability_status(database, drawn, today) ==
  [i \in 1..Len(database) |->
     WithKeys(database[i], [availability_status |-> drawn[i], last_updated |-> today])]

\* _update_source_availability.  drawn[i] is what random gave for entry i:
\* the value of random.choice(appetites) when random.random() was below 0.1,
\* the appetite the entry has otherwise; today is the date datetime.now()
\* gave, taken to be the same for every entry of one call
_update_source_availability(database, drawn, today) ==
  [i \in 1..Len(database) |->
     WithKeys(database[i], [current_appetite |-> drawn[i], last_updated |-> today])]

\* a refresh whose new market conditions have a selective government
refresh_market_data_selective(database, drawn, today) ==
  [market_conditions |->
     [_get_current_market_conditions EXCEPT !.lending_appetite.government = "selective"],
   funding_database  |-> _update_source_availability(database, drawn, today)]

\* refresh_market_data: the new market_conditions and funding_database
refresh_market_data(database, drawn, today) ==
  [market_conditions |-> _get_current_market_conditions,
   funding_database  |-> _update_source_availability(database, drawn, today)]

\* the catalog after the three assignments of _apply_market_conditions when
\* they go to the entries themselves (adjusted_source = source)
CatalogWrittenInPlace(database, sources, market) ==
  LET adjusted == _apply_market_conditions(sources, market)
  IN  [i \in 1..Len(database) |->
         IF \E k \in 1..Len(sources) : sources[k] = database[i]
         THEN adjusted[CHOOSE k \in 1..Len(sources) : sources[k] = database[i]]
         ELSE database[i]]

\* the catalog after _apply_market_conditions has run on a list of its
\* entries: adjusted_source = source.copy() is a new dict, the three
\* assignments go to it and no entry is written
CatalogAfterMarketConditions(database, sources, market) == database

\* self.funding_database after research_funding_sources: the two filters
\* only read, and the sort returns a new list
CatalogAfterResearch(database, market, profile, intelligence) ==
  IF EligibilityRaises(database, profile) THEN database
  ELSE CatalogAfterMarketConditions(database,
          _filter_by_intelligence(_filter_by_eligibility(database, profile),
                                  intelligence),
          market)

\* research_funding_sources
research_funding_sources(database, market, profile, intelligence) ==
  IF EligibilityRaises(database, profile) THEN _get_fallback_sources(profile)
  ELSE ResearchMainPath(database, market, profile, intelligence)

(***************************************************************************)
(* agents/recommendation_matcher.py                                        *)
(***************************************************************************)
\* the quotient and remainder of a * b by d, for a, b >= 0, without forming
\* a * b
RECURSIVE MulDivMod(_, _, _)
MulDivMod(a, b, d) ==
  IF b = 0 THEN [q |-> 0, r |-> 0]
  ELSE LET half == MulDivMod(a, b \div 2, d)
           rem  == 2 * half.r + (IF b % 2 = 1 THEN a % d ELSE 0)
           quo  == 2 * half.q + (IF b % 2 = 1 THEN a \div d ELSE 0)
       IN  [q |-> quo + rem \div d, r |-> rem % d]

\* a * b / d rounded down, for a >= 0 and any b
MulDivFloor(a, b, d) ==
  IF b >= 0 THEN MulDivMod(a, b, d).q
  ELSE LET m == MulDivMod(a, 0 - b, d)
       IN  0 - m.q - (IF m.r > 0 THEN 1 ELSE 0)

\* in U5
_assess_sector_compatibility(source, profile) ==
  IF SectorIn(profile, Get(source, "excluded_sectors", <<>>)) THEN 0
  ELSE IF Get(source, "sectors", <<>>) = <<"all">>
          \/ SectorIn(profile, Get(source, "sectors", <<>>)) THEN U5
  ELSE 30000

stage_preferences ==
  [bank_loan        |-> [mature |-> 100000, growth |-> 80000,  startup |-> 40000],
   asset_finance    |-> [mature |-> 100000, growth |-> 90000,  startup |-> 60000],
   angel_investment |-> [startup |-> 100000, growth |-> 70000, mature |-> 30000],
   venture_capital  |-> [startup |-> 90000, growth |-> 100000, mature |-> 20000],
   crowdfunding     |-> [startup |-> 80000, growth |-> 90000,  mature |-> 50000],
   government_grant |-> [startup |-> 90000, growth |-> 80000,  mature |-> 60000],
   family_office    |-> [growth |-> 100000, mature |-> 80000,  startup |-> 60000]]

\* in U5
_assess_stage_compatibility(intelligence, source) ==
  Get(Get(stage_preferences, source.type, <<>>),
      intelligence.business_profile.stage, 50000)

\* in U5
_assess_geographic_compatibility(source, profile) ==
  LET geo_requirements == Get(source, "geographic_requirement", <<>>)
  IN  IF geo_requirements = <<>> THEN U5
      ELSE IF InSeq(profile.location, geo_requirements) THEN U5
      ELSE 0

\* in U5; abs(amount - mid_point) <= range_size * 0.25 compared times 4
_assess_amount_compatibility(source, amount) ==
  LET min_amount == source.amount_range.min
      max_amount == source.amount_range.max
  IN  IF min_amount <= amount /\ amount <= max_amount
      THEN IF 2 * Abs(2 * amount - (min_amount + max_amount)) <= max_amount - min_amount
           THEN U5 ELSE 80000
      ELSE 0

\* in U5
_assess_compliance_compatibility(source, profile) == 90000

\* base_rate * (0.5 + 0.5 * readiness) * (0.5 + 0.5 * creditworthiness), in U5
_assess_historical_success_rate(intelligence, source) ==
  LET base_rate ==
        CASE source.type = "bank_loan"        -> 65
          [] source.type = "asset_finance"    -> 75
          [] source.type = "angel_investment" -> 25
          [] source.type = "venture_capital"  -> 15
          [] source.type = "crowdfunding"     -> 45
          [] source.type = "government_grant" -> 35
          [] source.type = "family_office"    -> 40
          [] OTHER                            -> 50
      readiness        == intelligence.business_profile.funding_readiness
      creditworthiness == intelligence.business_profile.creditworthiness
  IN  Min(MulDivFloor(base_rate * (U5 + readiness), U5 + creditworthiness,
                      400 * U5), U5)

\* in U5
_assess_current_appetite(source) ==
  LET appetite == Get(source, "current_appetite", "neutral")
  IN  CASE appetite = "aggressive" -> 100000
        [] appetite = "neutral"    -> 70000
        [] appetite = "selective"  -> 50000
        [] appetite = "cautious"   -> 30000
        [] appetite = "limited"    -> 10000
        [] OTHER                   -> 50000

\* creditworthiness * 0.6 + repayment_capacity * 0.4, in U5
_assess_financial_alignment(intelligence, source) ==
  (60 * intelligence.business_profile.creditworthiness
   + 40 * intelligence.funding_indicators.repayment_capacity) \div 100

\* in U5
_assess_management_fit(intelligence, source) ==
  LET management_strength == intelligence.funding_indicators.management_strength
  IN  IF source.type \in {"venture_capital", "angel_investment"}
      THEN management_strength
      ELSE 70000 + (30 * management_strength) \div 100

\* in U5
_assess_market_conditions(source) ==
  LET sector_status == Get(source, "sector_market_status", "neutral")
  IN  CASE sector_status = "hot"     -> 100000
        [] sector_status = "neutral" -> 70000
        [] sector_status = "cold"    -> 40000
        [] OTHER                     -> 70000

\* in U5
_assess_commission_potential(source, profile) ==
  CommissionScore(source, profile.funding_amount, U5)

\* max(0.1, 1.0 - (max_weeks - 1) / 20), in U5
_assess_processing_efficiency(source) ==
  LET timeline == Get(source, "approval_timeline", [min |-> 4, max |-> 8])
  IN  Max(10000, U5 - (timeline.max - 1) * 5000)

\* in U5
_assess_relationship_quality(source) ==
  IF Get(source, "availability_status", "") = "relationship_based" THEN 90000
  ELSE IF source.type \in {"family_office", "venture_capital"} THEN 80000
  ELSE 60000

\* in U5
_assess_application_complexity(source) ==
  CASE source.type = "asset_finance"    -> 90000
    [] source.type = "bank_loan"        -> 70000
    [] source.type = "crowdfunding"     -> 60000
    [] source.type = "government_grant" -> 40000
    [] source.type = "venture_capital"  -> 30000
    [] source.type = "angel_investment" -> 50000
    [] source.type = "family_office"    -> 40000
    [] OTHER                            -> 50000

\* in U5
_assess_longterm_potential(intelligence, source) ==
  IF source.type \in {"venture_capital", "family_office", "angel_investment"} THEN 90000
  ELSE IF source.type \in {"bank_loan", "asset_finance"} THEN 60000
  ELSE 40000

\* in U5
_assess_portfolio_fit(source, profile) == 70000

\* the first key of reputation_by_name that is a substring of the name
BrandIn(source_name) ==
  CASE source_name \in {"Barclays Business Loan"}                          -> "Barclays"
    [] source_name \in {"Lloyds Commercial Finance", "Lloyds Asset Finance"} -> "Lloyds"
    [] source_name \in {"Seedcamp Venture Capital"}                        -> "Seedcamp"
    [] source_name \in {"Crowdcube Equity Crowdfunding"}                   -> "Crowdcube"
    [] OTHER                                                               -> "none"

\* in U5
_assess_reputation_value(source) ==
  LET brand == BrandIn(Get(source, "name", ""))
  IN  CASE brand \in {"Barclays", "Lloyds"} -> 90000
        [] brand = "Seedcamp"               -> 80000
        [] brand = "Crowdcube"              -> 70000
        [] OTHER                            -> 60000

\* in U5
_assess_followon_potential(source, profile) ==
  IF source.type \in {"venture_capital", "angel_investment"} THEN 80000
  ELSE IF source.type = "family_office" THEN 70000
  ELSE 30000

\* in U5
_assess_network_benefits(source, profile) ==
  IF source.type \in {"venture_capital", "angel_investment", "family_office"} THEN 80000
  ELSE IF "sector" \notin profile.bad /\ profile.sector = "technology" THEN 60000
  ELSE 40000

\* in U7
_calculate_compatibility_score(intelligence, source, profile) ==
  Min(_assess_sector_compatibility(source, profile) * 25
      + _assess_stage_compatibility(intelligence, source) * 25
      + _assess_geographic_compatibility(source, profile) * 20
      + _assess_amount_compatibility(source, profile.funding_amount) * 20
      + _assess_compliance_compatibility(source, profile) * 10, U7)

\* in U7
_calculate_approval_probability(intelligence, source, profile) ==
  Min(_assess_historical_success_rate(intelligence, source) * 30
      + _assess_current_appetite(source) * 25
      + _assess_financial_alignment(intelligence, source) * 25
      + _assess_management_fit(intelligence, source) * 10
      + _assess_market_conditions(source) * 10, U7)

\* in U7
_calculate_commercial_value(source, profile) ==
  Min(_assess_commission_potential(source, profile) * 40
      + _assess_processing_efficiency(source) * 30
      + _assess_relationship_quality(source) * 20
      + _assess_application_complexity(source) * 10, U7)

\* in U7
_calculate_strategic_fit(intelligence, source, profile) ==
  Min(_assess_longterm_potential(intelligence, source) * 40
      + _assess_portfolio_fit(source, profile) * 20
      + _assess_reputation_value(source) * 20
      + _assess_followon_potential(source, profile) * 10
      + _assess_network_benefits(source, profile) * 10, U7)

\* overall_score in U9, the four dimensions in U7
_calculate_match_score(intelligence, source, profile) ==
  LET compatibility == _calculate_compatibility_score(intelligence, source, profile)
      probability   == _calculate_approval_probability(intelligence, source, profile)
      commercial    == _calculate_commercial_value(source, profile)
      strategic     == _calculate_strategic_fit(intelligence, source, profile)
      overall_score == compatibility * SCORING_WEIGHTS.compatibility
                       + probability * SCORING_WEIGHTS.approval_probability
                       + commercial * SCORING_WEIGHTS.commercial_value
                       + strategic * SCORING_WEIGHTS.strategic_fit
  IN  [overall_score        |-> Min(overall_score, U9),
       compatibility        |-> compatibility,
       approval_probability |-> probability,
       commercial_value     |-> commercial,
       strategic_fit        |-> strategic]

\* _create_match_result (requirements, next_steps, reasoning and the
\* formatted amount and commission strings are left out);
\* success_probability in 10^-8
_create_match_result(source, match_score, intelligence, profile) ==
  [source_id           |-> source.source_id,
   source_name         |-> source.name,
   funding_type        |-> source.type,
   overall_score       |-> match_score.overall_score,
   score_breakdown     |-> match_score,
   success_probability |-> 7 * match_score.approval_probability
                           + 3 * match_score.compatibility,
   timeline            |-> Get(source, "market_adjusted_timeline", source.approval_timeline),
   contact             |-> Get(source, "contact", <<>>)]

\* the diversity loop of _rank_and_diversify_matches over the sorted list
RECURSIVE Diversify(_, _, _)
Diversify(sorted_matches, diversified_matches, type_counts) ==
  IF sorted_matches = <<>> THEN diversified_matches
  ELSE LET match         == Head(sorted_matches)
           funding_type  == match.funding_type
           current_count == Get(type_counts, funding_type, 0)
       IN  IF current_count < DIVERSITY_REQUIREMENT
           THEN Diversify(Tail(sorted_matches), Append(diversified_matches, match),
                          WithKeys(type_counts, [t \in {funding_type} |-> current_count + 1]))
           ELSE Diversify(Tail(sorted_matches), diversified_matches, type_counts)

\* the ranking without the diversity loop
_rank_without_diversity(matches) == SortByScore(matches)

\* the ranking with the list cut to MAX_RECOMMENDATIONS before the diversity loop
_rank_truncated_then_diversify(matches) ==
  Diversify(Take(SortByScore(matches), MAX_RECOMMENDATIONS), <<>>, <<>>)

_rank_and_diversify_matches(matches) ==
  Diversify(SortByScore(matches), <<>>, <<>>)

\* _match_result_to_dict: scores rounded to three places, in 1/1000
_match_result_to_dict(match) ==
  [source_id           |-> match.source_id,
   source_name         |-> match.source_name,
   funding_type        |-> match.funding_type,
   overall_score       |-> RoundDiv(match.overall_score, U9 \div 1000),
   score_breakdown     |->
     [overall_score        |-> RoundDiv(match.score_breakdown.overall_score, U9 \div 1000),
      compatibility        |-> RoundDiv(match.score_breakdown.compatibility, U7 \div 1000),
      approval_probability |-> RoundDiv(match.score_breakdown.approval_probability, U7 \div 1000),
      commercial_value     |-> RoundDiv(match.score_breakdown.commercial_value, U7 \div 1000),
      strategic_fit        |-> RoundDiv(match.score_breakdown.strategic_fit, U7 \div 1000)],
   success_probability |-> RoundDiv(match.success_probability, U5),
   timeline            |-> match.timeline,
   contact             |-> match.contact]

\* a failure answered with an empty list
_create_no_fallback_matches(profile) ==
  <<>>

_create_fallback_matches(profile) ==
  << [source_id           |-> "fallback_generic",
      source_name         |-> "UK Business Finance",
      funding_type        |-> "bank_loan",
      overall_score       |-> 600,
      score_breakdown     |->
        [compatibility |-> 600, approval_probability |-> 600,
         commercial_value |-> 600, strategic_fit |-> 600],
      success_probability |-> 600,
      timeline            |-> [min |-> 4, max |-> 8],
      contact             |-> [email |-> "info@ukbusinessfinance.co.uk"]] >>

\* if match_score["overall_score"] >= self.min_score_threshold
Qualifies(match_score) == match_score.overall_score >= MIN_MATCH_SCORE

\* the try block of generate_matches raises: the scoring of a source without
\* a key that is read by subscript, .lower() on a location that is not a
\* string, or the building of the result of a qualifying source without a
\* key that _create_match_result reads by subscript
MatcherRaises(intelligence, funding_sources, profile) ==
  \E i \in 1..Len(funding_sources) :
     \/ ~({"type", "amount_range"} \subseteq DOMAIN funding_sources[i])
     \/ /\ Get(funding_sources[i], "geographic_requirement", <<>>) # <<>>
        /\ "location" \in profile.bad
     \/ /\ ~({"source_id", "name", "approval_timeline"}
                \subseteq DOMAIN funding_sources[i])
        /\ Qualifies(_calculate_match_score(intelligence, funding_sources[i], profile))

\* generate_matches: the try block, or the fallback when a step raises
generate_matches(intelligence, funding_sources, profile) ==
  IF MatcherRaises(intelligence, funding_sources, profile)
  THEN _create_fallback_matches(profile)
  ELSE
    LET scored == [i \in 1..Len(funding_sources) |->
                     [source      |-> funding_sources[i],
                      match_score |-> _calculate_match_score(intelligence,
                                         funding_sources[i], profile)]]
        kept == SelectSeq(scored, LAMBDA e : Qualifies(e.match_score))
        matches == [i \in 1..Len(kept) |->
                      _create_match_result(kept[i].source, kept[i].match_score,
                                           intelligence, profile)]
        ranked_matches == _rank_and_diversify_matches(matches)
        final_matches  == Take(ranked_matches, MAX_RECOMMENDATIONS)
    IN  [i \in 1..Len(final_matches) |-> _match_result_to_dict(final_matches[i])]

(***************************************************************************)
(* Requests and profiles                                                   *)
(***************************************************************************)
Sectors   == {"technology", "manufacturing", "retail", "gambling", "healthcare"}
Revenues  == {0, 40000, 450000, 1200000, 2500000}
Locations == {"london", "scotland", "wales"}
Ages      == {0, 1, 2, 3, 7, 8}
Amounts   == {4999, 5000, 100000, 250000, 250001, 500000, 4500000}

NoFinancials ==
  [absent |-> {"profit_margin", "cash_flow_months", "debt_to_equity"}, null |-> {},
   profit_margin |-> 0, cash_flow_months |-> 0, debt_to_equity |-> 0]

\* financials mappings: {}, a healthy one, a loss, a thin one, and one whose
\* profit_margin is None
FinancialsSet ==
  { NoFinancials,
    [absent |-> {}, null |-> {}, profit_margin |-> 15, cash_flow_months |-> 4,
     debt_to_equity |-> 8],
    [absent |-> {"debt_to_equity"}, null |-> {}, profit_margin |-> 0 - 50,
     cash_flow_months |-> 4, debt_to_equity |-> 0],
    [absent |-> {"debt_to_equity"}, null |-> {}, profit_margin |-> 3,
     cash_flow_months |-> 1, debt_to_equity |-> 0],
    [absent |-> {"cash_flow_months", "debt_to_equity"}, null |-> {"profit_margin"},
     profit_margin |-> 0, cash_flow_months |-> 0, debt_to_equity |-> 0] }

RequestOf(name, sector, revenue, employees, location, age, amount, financials) ==
  [company_name |-> name, sector |-> sector, annual_revenue |-> revenue,
   employees |-> employees, location |-> location, business_age |-> age,
   funding_amount |-> amount, financials |-> financials,
   absent |-> {}, null |-> {}, wrong_type |-> {}]

ScenarioA ==
  RequestOf("TechStart Solutions Ltd", "technology", 450000, 12, "london", 3, 250000,
            NoFinancials)

ScenarioB ==
  RequestOf("Manchester Manufacturing Co", "manufacturing", 1200000, 35, "north_west", 8,
            500000, NoFinancials)

\* funding_amount 160000 against no revenue and no trading history: the
\* UK Angel Investment Network then scores 0.4 + 0 + 0.12 + 0.08
ThresholdRequest ==
  RequestOf("Test Company Ltd", "technology", 0, 12, "london", 0, 160000, NoFinancials)

\* well-formed requests without a financials entry
GridRequests ==
  { [RequestOf("Test Company Ltd", s, r, 12, l, a, m, NoFinancials)
       EXCEPT !.absent = {"financials"}] :
      s \in Sectors, r \in Revenues, l \in Locations, a \in Ages, m \in Amounts }

DefectFields == {"company_name", "sector", "annual_revenue", "employees", "location",
                 "funding_amount", "business_age"}

\* Scenario A with one field absent, None, or of the wrong type
DefectRequests ==
  { [ScenarioA EXCEPT !.absent = {f}] : f \in DefectFields }
  \cup { [ScenarioA EXCEPT !.null = {f}] : f \in DefectFields }
  \cup { [ScenarioA EXCEPT !.wrong_type = {f}] : f \in DefectFields }

\* a request whose recommendations score 0.69 and 0.61: the mean is 0.65 and
\* the quotient computed in binary64 is below it
BoundaryMeanRequest ==
  RequestOf("Test Company Ltd", "healthcare", 975000, 12, "london", 2, 190000,
            NoFinancials)

\* requests whose mean match_score is exactly 0.65, 0.75 or 0.85: scores
\* 0.66 and 0.64, 0.65, 0.86 and 0.64, 0.75, 0.85
ExactMeanRequests ==
  { RequestOf("Test Company Ltd", "technology", 425000, 12, "london", 1, 255000,
              NoFinancials),
    RequestOf("Test Company Ltd", "technology", 250000, 12, "london", 0, 200000,
              NoFinancials),
    RequestOf("Test Company Ltd", "manufacturing", 950000, 12, "london", 10, 250000,
              NoFinancials),
    RequestOf("Test Company Ltd", "technology", 975000, 12, "london", 10, 750000,
              NoFinancials),
    RequestOf("Test Company Ltd", "manufacturing", 1000000, 12, "london", 4, 750000,
              NoFinancials) }

\* the Orchestrator reads no region table, so one location is enough
Requests ==
  { d \in GridRequests : d.location = "london" }
  \cup {ScenarioA, ScenarioB, ThresholdRequest, BoundaryMeanRequest}
  \cup ExactMeanRequests \cup DefectRequests

\* the grid requests that get every financials mapping
FinancialsRequests ==
  { d \in GridRequests : d.location = "london" /\ d.funding_amount \in {100000, 250000} }

\* requests with every combination of a sector, a region and a financials
\* mapping of low, medium and high risk
RiskRequests ==
  { RequestOf("Test Company Ltd", s, 2500000, 12, l, 7, 250000, f) :
      s \in {"healthcare", "technology", "retail"},
      l \in {"london", "scotland", "wales"},
      f \in { g \in FinancialsSet : g.null = {} /\ "debt_to_equity" \in g.absent } }

\* Scenario A with a debt_to_equity of 6.0, above every max_debt_ratio
HighDebtRequest ==
  [ScenarioA EXCEPT !.financials =
     [absent |-> {}, null |-> {}, profit_margin |-> 15, cash_flow_months |-> 4,
      debt_to_equity |-> 60]]

\* profiles handed to the agents: every grid request, some of them with every
\* financials mapping, the scenarios, and profiles built from a request with
\* a business_age of None, a location or a sector of the wrong type; the
\* business_age of None also with a funding_amount of 9,999 and of 10,000;
\* the requests of every risk combination and the one with a high debt
AgentProfiles ==
  { BusinessProfile(d) : d \in GridRequests }
  \cup { BusinessProfile([d EXCEPT !.financials = f, !.absent = {}]) :
           d \in FinancialsRequests, f \in FinancialsSet }
  \cup { BusinessProfile(ScenarioA), BusinessProfile(ScenarioB) }
  \cup { BusinessProfile(d) : d \in RiskRequests \cup {HighDebtRequest} }
  \cup { BusinessProfile([ScenarioA EXCEPT !.null = {"business_age"}]),
         BusinessProfile([ScenarioA EXCEPT !.wrong_type = {"location"}]),
         BusinessProfile([ScenarioA EXCEPT !.wrong_type = {"sector"}]) }
  \cup { BusinessProfile([RequestOf("Test Company Ltd", "technology", 450000, 12,
                                     "london", 3, m, NoFinancials)
                            EXCEPT !.null = {"business_age"}]) :
           m \in {9999, 10000} }

(***************************************************************************)
(* State                                                                   *)
(***************************************************************************)
VARIABLES
  pc,                    \* position inside process_recommendation_request
  business_data,         \* its argument
  business_id,           \* its locals
  business_profile,
  business_intelligence,
  available_sources,
  matches,
  steps,                 \* the _simulate_* steps the current call has run
  result,                \* the envelope the call returned
  funding_database,      \* FundingResearcher.funding_database
  market_conditions,     \* FundingResearcher.market_conditions
  agent_pc,              \* position of a caller that drives the three agents
  agent_profile,         \* the profile it passes
  agent_intelligence,    \* what analyze_business returned
  agent_sources,         \* the source list passed to generate_matches
  agent_matches,         \* what generate_matches returned
  other                  \* the locals of a second caller, whose calls run
                         \* between the steps of the first

orchestrator_vars ==
  <<pc, business_data, business_id, business_profile, business_intelligence,
    available_sources, matches, steps, result>>

researcher_vars == <<funding_database, market_conditions>>

agent_vars ==
  <<agent_pc, agent_profile, agent_intelligence, agent_sources, agent_matches>>

vars == <<orchestrator_vars, researcher_vars, agent_vars, other>>

\* a local that has no value yet
Unset == <<>>

\* a caller with no call in progress
NoCall ==
  [pc |-> "idle", business_data |-> Unset, business_id |-> Unset,
   business_profile |-> Unset, business_intelligence |-> Unset,
   available_sources |-> Unset, matches |-> Unset, steps |-> <<>>, result |-> Unset,
   agent_pc |-> "idle", agent_profile |-> Unset, agent_intelligence |-> Unset,
   agent_sources |-> Unset, agent_matches |-> Unset]

Init ==
  /\ pc = "idle"
  /\ business_data = Unset
  /\ business_id = Unset
  /\ business_profile = Unset
  /\ business_intelligence = Unset
  /\ available_sources = Unset
  /\ matches = Unset
  /\ steps = <<>>
  /\ result = Unset
  /\ funding_database = initial_funding_database
  /\ market_conditions = _get_current_market_conditions
  /\ agent_pc = "idle"
  /\ agent_profile = Unset
  /\ agent_intelligence = Unset
  /\ agent_sources = Unset
  /\ agent_matches = Unset
  /\ other = NoCall

(***************************************************************************)
(* main.py : process_recommendation_request, statement by statement        *)
(***************************************************************************)
\* the call and line 65; an exception here leaves the function
Request(data) ==
  /\ pc = "idle" /\ agent_pc = "idle"
  /\ business_data' = data
  /\ IF BusinessIdRaises(data)
     THEN /\ pc' = "raised"
          /\ UNCHANGED business_id
     ELSE /\ pc' = "validate"
          /\ business_id' = business_id_of(data)
  /\ UNCHANGED <<business_profile, business_intelligence, available_sources, matches,
                 steps, result, researcher_vars, other, agent_vars>>

\* step 1
ValidateInput ==
  /\ pc = "validate"
  /\ IF validate_input(business_data)
     THEN /\ pc' = "parse"
          /\ UNCHANGED result
     ELSE /\ pc' = "returned"
          /\ result' = create_error_result(business_id, INVALID_INPUT_MESSAGE)
  /\ UNCHANGED <<business_data, business_id, business_profile, business_intelligence,
                 available_sources, matches, steps, researcher_vars, other, agent_vars>>

\* step 2
ParseProfile ==
  /\ pc = "parse"
  /\ IF BusinessProfileRaises(business_data)
     THEN /\ pc' = "returned"
          /\ result' = exception_result(business_id, "ValueError")
          /\ UNCHANGED business_profile
     ELSE /\ pc' = "analysis"
          /\ business_profile' = BusinessProfile(business_data)
          /\ UNCHANGED result
  /\ UNCHANGED <<business_data, business_id, business_intelligence, available_sources,
                 matches, steps, researcher_vars, other, agent_vars>>

\* step 3
BusinessAnalysis ==
  /\ pc = "analysis"
  /\ steps' = Append(steps, "analysis")
  /\ IF SimAnalysisError(business_profile) # "none"
     THEN /\ pc' = "returned"
          /\ result' = exception_result(business_id, SimAnalysisError(business_profile))
          /\ UNCHANGED business_intelligence
     ELSE /\ pc' = "research"
          /\ business_intelligence' = simulate_business_analysis(business_profile)
          /\ UNCHANGED result
  /\ UNCHANGED <<business_data, business_id, business_profile, available_sources,
                 matches, researcher_vars, other, agent_vars>>

\* step 4
FundingResearch ==
  /\ pc = "research"
  /\ steps' = Append(steps, "research")
  /\ available_sources' = simulate_funding_research(business_profile,
                                                    business_intelligence)
  /\ pc' = "matching"
  /\ UNCHANGED <<business_data, business_id, business_profile, business_intelligence,
                 matches, result, researcher_vars, other, agent_vars>>

\* step 5
RecommendationMatching ==
  /\ pc = "matching"
  /\ steps' = Append(steps, "matching")
  /\ matches' = simulate_recommendation_matching(business_intelligence,
                                                 available_sources, business_profile)
  /\ pc' = "format"
  /\ UNCHANGED <<business_data, business_id, business_profile, business_intelligence,
                 available_sources, result, researcher_vars, other, agent_vars>>

\* step 6 and the return of the success envelope
FormatAndReturn ==
  /\ pc = "format"
  /\ result' = success_result(business_id,
                              format_recommendations(matches, business_profile),
                              available_sources)
  /\ pc' = "returned"
  /\ UNCHANGED <<business_data, business_id, business_profile, business_intelligence,
                 available_sources, matches, steps, researcher_vars, other, agent_vars>>

\* the caller has the envelope, or the exception; the locals are gone
Finish ==
  /\ pc \in {"returned", "raised"}
  /\ pc' = "idle"
  /\ business_data' = Unset
  /\ business_id' = Unset
  /\ business_profile' = Unset
  /\ business_intelligence' = Unset
  /\ available_sources' = Unset
  /\ matches' = Unset
  /\ steps' = <<>>
  /\ result' = Unset
  /\ UNCHANGED <<researcher_vars, other, agent_vars>>

(***************************************************************************)
(* agents : a caller runs analyze_business, research_funding_sources and   *)
(* generate_matches in turn, each on the output of the one before          *)
(***************************************************************************)
AnalyzeBusiness(profile) ==
  /\ pc = "idle" /\ agent_pc = "idle"
  /\ agent_profile' = profile
  /\ agent_intelligence' = analyze_business(profile)
  /\ agent_pc' = "analyzed"
  /\ UNCHANGED <<orchestrator_vars, researcher_vars, other, agent_sources, agent_matches>>

ResearchFundingSources ==
  /\ agent_pc = "analyzed"
  /\ agent_sources' = research_funding_sources(funding_database, market_conditions,
                                               agent_profile, agent_intelligence)
  /\ funding_database' = CatalogAfterResearch(funding_database, market_conditions,
                                              agent_profile, agent_intelligence)
  /\ agent_pc' = "researched"
  /\ UNCHANGED <<orchestrator_vars, market_conditions, other, agent_profile,
                 agent_intelligence, agent_matches>>

GenerateMatches ==
  /\ agent_pc \in {"researched", "listed"}
  /\ agent_matches' = generate_matches(agent_intelligence, agent_sources, agent_profile)
  /\ agent_pc' = "matched"
  /\ UNCHANGED <<orchestrator_vars, researcher_vars, other, agent_profile, agent_intelligence,
                 agent_sources>>

\* the caller drops its results
AgentsDone ==
  /\ agent_pc = "matched"
  /\ agent_pc' = "idle"
  /\ agent_profile' = Unset
  /\ agent_intelligence' = Unset
  /\ agent_sources' = Unset
  /\ agent_matches' = Unset
  /\ UNCHANGED <<orchestrator_vars, researcher_vars, other>>

Next ==
  \/ \E data \in Requests : Request(data)
  \/ ValidateInput
  \/ ParseProfile
  \/ BusinessAnalysis
  \/ FundingResearch
  \/ RecommendationMatching
  \/ FormatAndReturn
  \/ Finish
  \/ \E profile \in AgentProfiles : AnalyzeBusiness(profile)
  \/ ResearchFundingSources
  \/ GenerateMatches
  \/ AgentsDone

Spec == Init /\ [][Next]_vars

(***************************************************************************)
(* generate_matches called on its own, with any list of sources            *)
(***************************************************************************)
\* longest source list passed
MaxSources == 6

\* catalog entries as research_funding_sources hands them on
AdjustedCatalog ==
  _apply_market_conditions(initial_funding_database, _get_current_market_conditions)

\* two bank_loan sources, one asset_finance and one angel_investment source
SourcePool ==
  { AdjustedCatalog[i] : i \in { j \in 1..Len(AdjustedCatalog) :
       AdjustedCatalog[j].source_id \in
          {"barclays_business_loan", "funding_circle", "lloyds_commercial_finance",
           "uk_angel_network"} } }

\* Scenario A, for which every pool source scores above the threshold, and a
\* profile for which none does
MatcherProfiles ==
  { BusinessProfile(ScenarioA),
    BusinessProfile(RequestOf("Test Company Ltd", "retail", 40000, 12, "wales", 0, 4999,
                              NoFinancials)) }

\* the caller analyses a profile and starts an empty source list
StartList(profile) ==
  /\ pc = "idle" /\ agent_pc = "idle"
  /\ agent_profile' = profile
  /\ agent_intelligence' = analyze_business(profile)
  /\ agent_sources' = <<>>
  /\ agent_pc' = "listed"
  /\ UNCHANGED <<orchestrator_vars, researcher_vars, other, agent_matches>>

\* the caller puts one more source on the list
AddSource(source) ==
  /\ agent_pc = "listed"
  /\ Len(agent_sources) < MaxSources
  /\ agent_sources' = Append(agent_sources, source)
  /\ UNCHANGED <<orchestrator_vars, researcher_vars, other, agent_pc, agent_profile,
                 agent_intelligence, agent_matches>>

MatcherNext ==
  \/ \E profile \in MatcherProfiles : StartList(profile)
  \/ \E source \in SourcePool : AddSource(source)
  \/ GenerateMatches
  \/ AgentsDone

MatcherSpec == Init /\ [][MatcherNext]_vars

(***************************************************************************)
(* generate_matches on lists that hold a source it cannot process          *)
(***************************************************************************)
\* a source dict without one of its keys
Without(source, key) == [k \in DOMAIN source \ {key} |-> source[k]]

\* an asset_finance entry; a regional entry, whose geographic_requirement
\* makes the Matcher lower-case the location; the Barclays entry without its
\* name, and without its type
FaultyPool ==
  { AdjustedCatalog[i] : i \in { j \in 1..Len(AdjustedCatalog) :
       AdjustedCatalog[j].source_id \in
          {"lloyds_commercial_finance", "scottish_enterprise"} } }
  \cup { Without(AdjustedCatalog[i], key) :
           i \in { j \in 1..Len(AdjustedCatalog) :
                     AdjustedCatalog[j].source_id = "barclays_business_loan" },
           key \in {"name", "type"} }

\* Scenario A, Scenario A with a location that is not a string, and the
\* profile for which no source qualifies
FaultyProfiles ==
  MatcherProfiles \cup { BusinessProfile([ScenarioA EXCEPT !.wrong_type = {"location"}]) }

FaultyNext ==
  \/ \E profile \in FaultyProfiles : StartList(profile)
  \/ \E source \in FaultyPool : AddSource(source)
  \/ GenerateMatches
  \/ AgentsDone

FaultySpec == Init /\ [][FaultyNext]_vars

(***************************************************************************)
(* Two callers: the same statements, run on the second caller's locals     *)
(***************************************************************************)
ConcurrentRequests ==
  { ScenarioA, ScenarioB, ThresholdRequest,
    [ScenarioA EXCEPT !.absent = {"sector"}],
    [ScenarioA EXCEPT !.wrong_type = {"annual_revenue"}],
    [ScenarioA EXCEPT !.wrong_type = {"location"}],
    [ScenarioA EXCEPT !.null = {"company_name"}] }

ConcurrentProfiles ==
  { BusinessProfile(ScenarioA), BusinessProfile(ScenarioB),
    BusinessProfile([ScenarioA EXCEPT !.wrong_type = {"sector"}]) }

OtherRequest(data) ==
  /\ other.pc = "idle" /\ other.agent_pc = "idle"
  /\ other' = IF BusinessIdRaises(data)
              THEN [other EXCEPT !.business_data = data, !.pc = "raised"]
              ELSE [other EXCEPT !.business_data = data, !.pc = "validate",
                                 !.business_id = business_id_of(data)]
  /\ UNCHANGED <<orchestrator_vars, researcher_vars, agent_vars>>

OtherValidateInput ==
  /\ other.pc = "validate"
  /\ other' = IF validate_input(other.business_data)
              THEN [other EXCEPT !.pc = "parse"]
              ELSE [other EXCEPT !.pc = "returned",
                      !.result = create_error_result(other.business_id,
                                                     INVALID_INPUT_MESSAGE)]
  /\ UNCHANGED <<orchestrator_vars, researcher_vars, agent_vars>>

OtherParseProfile ==
  /\ other.pc = "parse"
  /\ other' = IF BusinessProfileRaises(other.business_data)
              THEN [other EXCEPT !.pc = "returned",
                      !.result = exception_result(other.business_id, "ValueError")]
              ELSE [other EXCEPT !.pc = "analysis",
                      !.business_profile = BusinessProfile(other.business_data)]
  /\ UNCHANGED <<orchestrator_vars, researcher_vars, agent_vars>>

OtherBusinessAnalysis ==
  /\ other.pc = "analysis"
  /\ other' = IF SimAnalysisError(other.business_profile) # "none"
              THEN [other EXCEPT !.pc = "returned",
                      !.steps = Append(@, "analysis"),
                      !.result = exception_result(other.business_id,
                                    SimAnalysisError(other.business_profile))]
              ELSE [other EXCEPT !.pc = "research",
                      !.steps = Append(@, "analysis"),
                      !.business_intelligence =
                          simulate_business_analysis(other.business_profile)]
  /\ UNCHANGED <<orchestrator_vars, researcher_vars, agent_vars>>

\* step 4 as it would run if the profile and the intelligence were attributes
\* of the Orchestrator, which both callers share, instead of locals
OtherFundingResearchOnShared ==
  /\ other.pc = "research"
  /\ pc \in {"research", "matching", "format"}
  /\ other' = [other EXCEPT !.pc = "matching",
                 !.steps = Append(@, "research"),
                 !.available_sources =
                     simulate_funding_research(business_profile, business_intelligence)]
  /\ UNCHANGED <<orchestrator_vars, researcher_vars, agent_vars>>

OtherFundingResearch ==
  /\ other.pc = "research"
  /\ other' = [other EXCEPT !.pc = "matching",
                 !.steps = Append(@, "research"),
                 !.available_sources =
                     simulate_funding_research(other.business_profile,
                                               other.business_intelligence)]
  /\ UNCHANGED <<orchestrator_vars, researcher_vars, agent_vars>>

OtherRecommendationMatching ==
  /\ other.pc = "matching"
  /\ other' = [other EXCEPT !.pc = "format",
                 !.steps = Append(@, "matching"),
                 !.matches =
                     simulate_recommendation_matching(other.business_intelligence,
                         other.available_sources, other.business_profile)]
  /\ UNCHANGED <<orchestrator_vars, researcher_vars, agent_vars>>

OtherFormatAndReturn ==
  /\ other.pc = "format"
  /\ other' = [other EXCEPT !.pc = "returned",
                 !.result = success_result(other.business_id,
                     format_recommendations(other.matches, other.business_profile),
                     other.available_sources)]
  /\ UNCHANGED <<orchestrator_vars, researcher_vars, agent_vars>>

OtherFinish ==
  /\ other.pc \in {"returned", "raised"}
  /\ other' = NoCall
  /\ UNCHANGED <<orchestrator_vars, researcher_vars, agent_vars>>

OtherAnalyzeBusiness(profile) ==
  /\ other.pc = "idle" /\ other.agent_pc = "idle"
  /\ other' = [other EXCEPT !.agent_pc = "analyzed",
                 !.agent_profile = profile,
                 !.agent_intelligence = analyze_business(profile)]
  /\ UNCHANGED <<orchestrator_vars, researcher_vars, agent_vars>>

OtherResearchFundingSources ==
  /\ other.agent_pc = "analyzed"
  /\ other' = [other EXCEPT !.agent_pc = "researched",
                 !.agent_sources =
                     research_funding_sources(funding_database, market_conditions,
                         other.agent_profile, other.agent_intelligence)]
  /\ funding_database' = CatalogAfterResearch(funding_database, market_conditions,
                             other.agent_profile, other.agent_intelligence)
  /\ UNCHANGED <<orchestrator_vars, market_conditions, agent_vars>>

\* generate_matches returning its matches before the ranking
OtherGenerateMatchesUnranked ==
  /\ other.agent_pc = "researched"
  /\ other' = [other EXCEPT !.agent_pc = "matched",
                 !.agent_matches = other.agent_sources]
  /\ UNCHANGED <<orchestrator_vars, researcher_vars, agent_vars>>

OtherGenerateMatches ==
  /\ other.agent_pc = "researched"
  /\ other' = [other EXCEPT !.agent_pc = "matched",
                 !.agent_matches =
                     generate_matches(other.agent_intelligence, other.agent_sources,
                                      other.agent_profile)]
  /\ UNCHANGED <<orchestrator_vars, researcher_vars, agent_vars>>

OtherAgentsDone ==
  /\ other.agent_pc = "matched"
  /\ other' = NoCall
  /\ UNCHANGED <<orchestrator_vars, researcher_vars, agent_vars>>

ConcurrentNext ==
  \/ \E data \in ConcurrentRequests : Request(data)
  \/ ValidateInput
  \/ ParseProfile
  \/ BusinessAnalysis
  \/ FundingResearch
  \/ RecommendationMatching
  \/ FormatAndReturn
  \/ Finish
  \/ \E profile \in ConcurrentProfiles : AnalyzeBusiness(profile)
  \/ ResearchFundingSources
  \/ GenerateMatches
  \/ AgentsDone
  \/ \E data \in ConcurrentRequests : OtherRequest(data)
  \/ OtherValidateInput
  \/ OtherParseProfile
  \/ OtherBusinessAnalysis
  \/ OtherFundingResearch
  \/ OtherRecommendationMatching
  \/ OtherFormatAndReturn
  \/ OtherFinish
  \/ \E profile \in ConcurrentProfiles : OtherAnalyzeBusiness(profile)
  \/ OtherResearchFundingSources
  \/ OtherGenerateMatches
  \/ OtherAgentsDone

ConcurrentSpec == Init /\ [][ConcurrentNext]_vars

(***************************************************************************)
(* The agents with refresh_market_data called between their calls          *)
(***************************************************************************)
\* most catalog entries whose current_appetite differs from the one that
\* __init__ gave them
MaxDrifted == 1

\* the date of the catalog as built and the day after it
Days == <<"2025-09-06", "2025-09-07">>

\* position of a date in Days
DayIndex(date) == CHOOSE d \in 1..Len(Days) : Days[d] = date

\* what random can give to one call of _update_source_availability
Draws(database) ==
  UNION { { [i \in 1..Len(database) |->
               IF i \in changed THEN drawn[i]
               ELSE initial_funding_database[i].current_appetite] :
            drawn \in [changed -> { appetites[a] : a \in 1..Len(appetites) }] } :
          changed \in { c \in SUBSET (1..Len(database)) : Cardinality(c) <= MaxDrifted } }

\* a profile with seven sources on the main path, one with none, and one for
\* which the analysis and the research fall back
RefreshProfiles ==
  { BusinessProfile(ScenarioA), BusinessProfile(ScenarioB),
    BusinessProfile([ScenarioA EXCEPT !.null = {"business_age"}]) }

\* the caller calls refresh_market_data, before a request or between
\* analyze_business and research_funding_sources; the clock does not run
\* backwards
RefreshMarketData ==
  /\ pc = "idle" /\ agent_pc \in {"idle", "analyzed"}
  /\ \E drawn \in Draws(funding_database) :
     \E d \in 1..Len(Days) :
        /\ \A i \in 1..Len(funding_database) :
              d >= DayIndex(funding_database[i].last_updated)
        /\ LET refreshed == refresh_market_data(funding_database, drawn, Days[d])
           IN  /\ funding_database' = refreshed.funding_database
               /\ market_conditions' = refreshed.market_conditions
  /\ UNCHANGED <<orchestrator_vars, agent_vars, other>>

RefreshNext ==
  \/ \E profile \in RefreshProfiles : AnalyzeBusiness(profile)
  \/ ResearchFundingSources
  \/ GenerateMatches
  \/ AgentsDone
  \/ RefreshMarketData

RefreshSpec == Init /\ [][RefreshNext]_vars

(***************************************************************************)
(* Properties                                                              *)
(***************************************************************************)
\* number of entries of ms with funding_type t
TypeCount(ms, t) == Cardinality({ i \in 1..Len(ms) : ms[i].funding_type = t })

\* overall_score of a source for the profile the agents' caller holds
AgentScore(source) ==
  _calculate_match_score(agent_intelligence, source, agent_profile).overall_score

\* overall_score of a source for the request the Orchestrator is processing
RequestScore(source) ==
  SimMatch(source, business_intelligence, business_profile).overall_score

\* C1: every list generate_matches returned, for any intelligence, source list
\* and profile, holds at most DIVERSITY_REQUIREMENT (2) entries of any one
\* funding_type and at most MAX_RECOMMENDATIONS (5) entries; so does the match
\* list of the Orchestrator's matching step.
C1_DiversityAndLimit ==
  /\ (agent_pc = "matched") =>
        /\ Len(agent_matches) <= MAX_RECOMMENDATIONS
        /\ \A i \in 1..Len(agent_matches) :
              TypeCount(agent_matches, agent_matches[i].funding_type)
                 <= DIVERSITY_REQUIREMENT
  /\ (pc = "format") =>
        /\ Len(matches) <= MAX_RECOMMENDATIONS
        /\ \A i \in 1..Len(matches) :
              Cardinality({ j \in 1..Len(matches) :
                              matches[j].source.type = matches[i].source.type })
                 <= DIVERSITY_REQUIREMENT

\* C1 witness: generate_matches was given three or more bank_loan sources that
\* all pass the threshold, and returned a full list with two of them.
C1_Witness ==
  /\ agent_pc = "matched"
  /\ Cardinality({ j \in 1..Len(agent_sources) :
                     /\ agent_sources[j].type = "bank_loan"
                     /\ AgentScore(agent_sources[j]) >= MIN_MATCH_SCORE }) >= 3
  /\ Len(agent_matches) = MAX_RECOMMENDATIONS
  /\ TypeCount(agent_matches, "bank_loan") = DIVERSITY_REQUIREMENT

\* C2: a catalog source that the eligibility rules exclude for the profile
\* (amount, allow-list, exclude-list, trading years, revenue, geography) is
\* never among the final recommendations, neither in the envelope of a
\* request nor in the list the agents produce.
C2_ExcludedNeverRecommended ==
  /\ (pc = "returned" /\ result.success) =>
        \A i \in 1..Len(matches) : \A j \in 1..Len(funding_database) :
           (funding_database[j].source_id = matches[i].source.source_id)
              => IsEligible(funding_database[j], business_profile)
  /\ (agent_pc = "matched") =>
        \A i \in 1..Len(agent_matches) : \A j \in 1..Len(funding_database) :
           (funding_database[j].source_id = agent_matches[i].source_id)
              => IsEligible(funding_database[j], agent_profile)

\* C3: no call of process_recommendation_request ends with an exception
\* leaving the function.
C3_NoExceptionEscapes == pc # "raised"

\* C4: a request in which one of the six required fields is absent or None
\* ends with the INVALID_INPUT envelope (success false, that message in
\* errors, no recommendations, total_processed 0) and runs none of the steps.
C4_MissingFieldRejected ==
  (/\ pc \in {"returned", "raised"}
   /\ \E i \in 1..Len(required_fields) :
         required_fields[i] \in business_data.absent \cup business_data.null)
  => (/\ pc = "returned"
      /\ result.success = FALSE
      /\ result.errors = <<INVALID_INPUT_MESSAGE>>
      /\ result.recommendations = <<>>
      /\ result.total_processed = 0
      /\ steps = <<>>)

\* C5 as stated: every request that passed validation has run analysis,
\* research and matching, each once and in that order, when the call returns.
C5_AllStepsAfterValidation ==
  (pc = "returned" /\ validate_input(business_data))
  => steps = <<"analysis", "research", "matching">>

\* C5 amended: the steps run in the order analysis, research, matching, each at
\* most once and each on the output of the one before; none runs before
\* validation passed; a call that raises runs no step after the one that
\* raised; a call in which nothing raises runs all three and returns
\* success=true with total_processed the length of the research output.
C5_StepsInOrder ==
  LET all_steps == <<"analysis", "research", "matching">>
      validated == validate_input(business_data)
  IN  /\ Len(steps) <= 3
      /\ \A i \in 1..Len(steps) : steps[i] = all_steps[i]
      /\ (pc \in {"validate", "parse", "analysis", "raised"}) => steps = <<>>
      /\ (pc = "research") => steps = <<"analysis">>
      /\ (pc \in {"matching", "format"}) =>
            available_sources = simulate_funding_research(business_profile,
                                                          business_intelligence)
      /\ (pc = "format") =>
            /\ steps = all_steps
            /\ matches = simulate_recommendation_matching(
                            business_intelligence, available_sources, business_profile)
      /\ (pc = "returned") =>
            /\ ~validated => steps = <<>>
            /\ result.success =>
                  /\ validated
                  /\ steps = all_steps
                  /\ result.total_processed = Len(available_sources)
            /\ ~result.success => Len(steps) <= 1
            /\ (/\ validated
                /\ ~BusinessProfileRaises(business_data)
                /\ SimAnalysisError(BusinessProfile(business_data)) = "none")
               => result.success

\* C5 witness: a call returned success=true after the three steps, and the
\* research step had returned two or more sources.
C5_Witness ==
  /\ pc = "returned"
  /\ result.success
  /\ steps = <<"analysis", "research", "matching">>
  /\ Len(available_sources) >= 2
  /\ result.total_processed = Len(available_sources)

\* C6: only sources whose overall_score is at least MIN_MATCH_SCORE (0.6) are
\* returned, and a score of exactly 0.6 is enough: every source generate_matches
\* returns scores 0.6 or more, and it returns every such source when the
\* diversity rule and the length limit leave room; the Orchestrator's matching
\* step returns exactly the researched sources that score 0.6 or more.
C6_ThresholdInclusive ==
  /\ (agent_pc = "matched" /\ ~MatcherRaises(agent_intelligence, agent_sources, agent_profile)) =>
        LET passing == { j \in 1..Len(agent_sources) :
                           AgentScore(agent_sources[j]) >= MIN_MATCH_SCORE }
        IN  /\ \A i \in 1..Len(agent_matches) : \E j \in passing :
                  agent_sources[j].source_id = agent_matches[i].source_id
            /\ (/\ Cardinality(passing) <= MAX_RECOMMENDATIONS
                /\ \A j \in passing :
                      Cardinality({ k \in passing :
                                      agent_sources[k].type = agent_sources[j].type })
                         <= DIVERSITY_REQUIREMENT)
               => \A j \in passing : \E i \in 1..Len(agent_matches) :
                     agent_matches[i].source_id = agent_sources[j].source_id
  /\ (pc = "format") =>
        /\ \A i \in 1..Len(matches) : RequestScore(matches[i].source) >= MIN_MATCH_SCORE
        /\ \A j \in 1..Len(available_sources) :
              (RequestScore(available_sources[j]) >= MIN_MATCH_SCORE)
                 => \E i \in 1..Len(matches) : matches[i].source = available_sources[j]

\* C6 witness: a request returned a recommendation for a source whose
\* overall_score is exactly 0.6.
C6_Witness ==
  /\ pc = "returned"
  /\ result.success
  /\ \E i \in 1..Len(matches) :
        /\ RequestScore(matches[i].source) = MIN_MATCH_SCORE
        /\ result.recommendations[i].funding_source = matches[i].source.name
        /\ result.recommendations[i].match_score = 60

\* C7: for a profile with well typed fields and any numeric financials,
\* funding_readiness and creditworthiness of the analysis, and every
\* score_breakdown component generate_matches returns for it, lie in [0, 1].
C7_ScoresInUnitInterval ==
  (/\ agent_pc \in {"analyzed", "researched", "matched"}
   /\ agent_profile.bad = {}
   /\ agent_profile.financials.null = {})
  => (/\ agent_intelligence.business_profile.funding_readiness \in 0..U5
      /\ agent_intelligence.business_profile.creditworthiness \in 0..U5
      /\ (agent_pc = "matched") =>
            \A i \in 1..Len(agent_matches) :
               LET breakdown == agent_matches[i].score_breakdown
               IN  \A k \in DOMAIN breakdown : breakdown[k] \in 0..1000)

\* C8: the envelope returned for the Scenario A request has a recommendation,
\* one of them of type bank_loan, asset_finance or angel_investment, and a
\* confidence_level of medium, high or very_high.
C8_ScenarioA ==
  (pc = "returned" /\ business_data = ScenarioA)
  => (/\ result.recommendations # <<>>
      /\ \E i \in 1..Len(result.recommendations) :
            result.recommendations[i].type
               \in {"bank_loan", "asset_finance", "angel_investment"}
      /\ result.confidence_level \in {"medium", "high", "very_high"})

\* C9: the stage in the business intelligence depends on business_age alone:
\* startup up to 2 years, growth up to 7, mature above; this holds for the
\* analysis of BusinessAnalyzer and for the Orchestrator's analysis step.
C9_StageFromAgeAlone ==
  LET stage_by_age(age) ==
        IF age <= 2 THEN "startup" ELSE IF age <= 7 THEN "growth" ELSE "mature"
  IN  /\ (agent_pc \in {"analyzed", "researched", "matched"}
          /\ ~AnalyzerRaises(agent_profile))
         => agent_intelligence.business_profile.stage
               = stage_by_age(agent_profile.business_age)
      /\ (pc \in {"research", "matching", "format"})
         => business_intelligence.business_profile.stage
               = stage_by_age(business_profile.business_age)

\* C10: with a positive annual_revenue, the business intelligence has
\* "excessive_funding_request" in red_flags and amount_justification
\* "excessive" when funding_amount is more than twice the revenue, and neither
\* of them otherwise; this holds for the analysis of BusinessAnalyzer and for
\* the Orchestrator's analysis step.
C10_ExcessiveFundingReported ==
  LET reported(intelligence, profile) ==
        LET flagged   == InSeq("excessive_funding_request", intelligence.red_flags)
            excessive == intelligence.funding_indicators.amount_justification
                            = "excessive"
        IN  IF profile.funding_amount > 2 * profile.annual_revenue
            THEN flagged /\ excessive
            ELSE ~flagged /\ ~excessive
  IN  /\ (/\ agent_pc \in {"analyzed", "researched", "matched"}
          /\ ~AnalyzerRaises(agent_profile)
          /\ agent_profile.annual_revenue > 0)
         => reported(agent_intelligence, agent_profile)
      /\ (pc \in {"research", "matching", "format"}
          /\ business_profile.annual_revenue > 0)
         => reported(business_intelligence, business_profile)

C12_AnalysisTotalWithFallback ==
  (agent_pc # "idle") =>
     /\ DOMAIN agent_intelligence =
           {"business_profile", "funding_indicators", "matching_tags", "red_flags",
            "recommended_funding_types"}
     /\ AnalyzerRaises(agent_profile) =>
           /\ agent_intelligence.business_profile.risk_level = "medium"
           /\ agent_intelligence.business_profile.stage = "unknown"
           /\ agent_intelligence.business_profile.funding_readiness = 4 * (U5 \div 10)
           /\ agent_intelligence.matching_tags =
                 <<agent_profile.sector, "fallback_analysis">>
           /\ agent_intelligence.red_flags = <<"incomplete_data">>
     /\ ~AnalyzerRaises(agent_profile) =>
           agent_intelligence.business_profile.stage # "unknown"

\* the analysis of a profile whose profit_margin is None has been returned
C12_Witness ==
  /\ agent_pc = "analyzed"
  /\ "profit_margin" \in agent_profile.financials.null
  /\ agent_intelligence.business_profile.stage = "unknown"

\* the source_id of every entry of a source list, in order
SourceIds(sources) == [i \in 1..Len(sources) |-> sources[i].source_id]

\* C13: research_funding_sources returns a list for every profile and never
\* raises; when a stage of the research fails the list is the hardcoded
\* fallback: the generic bank loan, followed by the generic asset finance
\* entry exactly when funding_amount >= 10,000.  A list from the main path
\* holds catalog entries only.
C13_ResearchFallback ==
  (agent_pc \in {"researched", "matched"}) =>
     /\ EligibilityRaises(funding_database, agent_profile) =>
           /\ agent_sources[1] = generic_bank_loan
           /\ SourceIds(agent_sources) =
                 IF agent_profile.funding_amount >= 10000
                 THEN <<"generic_bank_loan", "generic_asset_finance">>
                 ELSE <<"generic_bank_loan">>
           /\ Len(agent_sources) = 2 => agent_sources[2] = generic_asset_finance
     /\ ~EligibilityRaises(funding_database, agent_profile) =>
           \A i \in 1..Len(agent_sources) :
              \E j \in 1..Len(funding_database) :
                 funding_database[j].source_id = agent_sources[i].source_id

\* the research failed for a funding_amount of exactly 10,000 and returned
\* both fallback entries
C13_Witness ==
  /\ agent_pc = "researched"
  /\ EligibilityRaises(funding_database, agent_profile)
  /\ agent_profile.funding_amount = 10000
  /\ Len(agent_sources) = 2

\* C14: generate_matches returns a list for every source list and never
\* raises; when the scoring of a source or the building of its result fails,
\* the list is exactly the one hardcoded fallback match (fallback_generic, of
\* type bank_loan, with overall_score 0.6), whatever had qualified before the
\* failing source.
C14_MatcherFallback ==
  (agent_pc = "matched"
     /\ MatcherRaises(agent_intelligence, agent_sources, agent_profile)) =>
     /\ Len(agent_matches) = 1
     /\ agent_matches[1].source_id = "fallback_generic"
     /\ agent_matches[1].funding_type = "bank_loan"
     /\ agent_matches[1].overall_score = 600

\* the list held a source that qualifies for Scenario A (Lloyds Commercial
\* Finance) ahead of the Barclays entry without a name, and the fallback match
\* was returned
C14_Witness ==
  /\ agent_pc = "matched"
  /\ agent_profile = BusinessProfile(ScenarioA)
  /\ Len(agent_sources) = 2
  /\ agent_sources[1].source_id = "lloyds_commercial_finance"
  /\ Qualifies(_calculate_match_score(agent_intelligence, agent_sources[1],
                                      agent_profile))
  /\ "name" \notin DOMAIN agent_sources[2]
  /\ SourceIds(agent_matches) = <<"fallback_generic">>

\* C15: an envelope returned by process_recommendation_request has an errors
\* entry exactly when success is false; then errors is non-empty,
\* recommendations is empty and total_processed is 0.  A success envelope has
\* no errors entry, and with no recommendations its confidence_level is "none".
C15_ErrorsIffFailure ==
  (pc = "returned") =>
     /\ ("errors" \in DOMAIN result) <=> (result.success = FALSE)
     /\ (result.success = FALSE) =>
           /\ Len(result.errors) >= 1
           /\ result.recommendations = <<>>
           /\ result.total_processed = 0
     /\ (result.success = TRUE /\ result.recommendations = <<>>) =>
           result.confidence_level = "none"

\* a request for which sources were researched and none reached the threshold:
\* success with an empty list
C15_Witness ==
  /\ pc = "returned"
  /\ result.success = TRUE
  /\ result.recommendations = <<>>
  /\ result.total_processed >= 1
  /\ "errors" \notin DOMAIN result

\* the match_score values of the envelope, in 1/100
ResultScores == [i \in 1..Len(result.recommendations) |->
                   result.recommendations[i].match_score]

\* C16: the confidence_level of a success envelope is given by the mean of
\* the match_score values of its recommendations: very_high for a mean of 0.85
\* or more, high for 0.75 or more, medium for 0.65 or more, low below that and
\* none for an empty list; a mean equal to a boundary gets the higher label.
C16_ConfidenceByMean ==
  (pc = "returned" /\ result.success = TRUE) =>
     LET n     == Len(result.recommendations)
         total == SeqSum(ResultScores)
     IN  result.confidence_level =
            IF n = 0 THEN "none"
            ELSE IF total >= 85 * n THEN "very_high"
            ELSE IF total >= 75 * n THEN "high"
            ELSE IF total >= 65 * n THEN "medium"
            ELSE "low"

\* the source with this source_id is in the list
InSources(source_id, sources) ==
  \E i \in 1..Len(sources) : sources[i].source_id = source_id

\* funding_amount is the min or the max of the source's amount_range
AtAmountBound(source, amount) ==
  amount = source.amount_range.min \/ amount = source.amount_range.max

\* funding_amount is one pound below the min or one pound above the max
JustOutside(source, amount) ==
  amount = source.amount_range.min - 1 \/ amount = source.amount_range.max + 1

\* C17: the amount checks are inclusive.  A catalog source whose amount_range
\* min or max equals the funding_amount, and which passes the other checks of
\* the research, is in the list research_funding_sources returns, and its
\* amount fit is not zero; a source whose min is one above, or whose max is one
\* below, the funding_amount is not in the list.  The same holds for the
\* simulated sources of the Orchestrator's research step.
C17_AmountBoundsInclusive ==
  /\ (agent_pc \in {"researched", "matched"}
        /\ ~EligibilityRaises(funding_database, agent_profile)) =>
        \A j \in 1..Len(funding_database) :
           LET source == funding_database[j]
               amount == agent_profile.funding_amount
           IN  /\ (/\ AtAmountBound(source, amount)
                   /\ source.sectors = <<"all">> \/ SectorIn(agent_profile, source.sectors)
                   /\ ~SectorIn(agent_profile, Get(source, "excluded_sectors", <<>>))
                   /\ PassesAgeAndRevenue(source, agent_profile)
                   /\ PassesGeography(source, agent_profile)
                   /\ _filter_by_intelligence(<<source>>, agent_intelligence) # <<>>) =>
                      /\ InSources(source.source_id, agent_sources)
                      /\ _assess_amount_compatibility(source, amount) > 0
               /\ JustOutside(source, amount) =>
                      /\ ~InSources(source.source_id, agent_sources)
                      /\ _assess_amount_compatibility(source, amount) = 0
  /\ (pc \in {"matching", "format"}) =>
        \A j \in 1..Len(simulated_sources) :
           LET source == simulated_sources[j]
               amount == business_profile.funding_amount
           IN  /\ (/\ AtAmountBound(source, amount)
                   /\ business_profile.business_age >= source.min_trading_years
                   /\ source.sectors = <<"all">>
                         \/ InSeq(business_profile.sector, source.sectors)) =>
                      InSources(source.source_id, available_sources)
               /\ JustOutside(source, amount) =>
                      ~InSources(source.source_id, available_sources)

\* a profile asking for 250,000, the max of the Barclays Business Loan, got
\* that source from the research
C17_Witness ==
  /\ agent_pc = "researched"
  /\ agent_profile.funding_amount = 250000
  /\ InSources("barclays_business_loan", agent_sources)

\* the envelope process_recommendation_request returns for a request when no
\* other call is in progress
EnvelopeAlone(data) ==
  LET id == business_id_of(data)
  IN  IF ~validate_input(data) THEN create_error_result(id, INVALID_INPUT_MESSAGE)
      ELSE IF BusinessProfileRaises(data) THEN exception_result(id, "ValueError")
      ELSE LET profile == BusinessProfile(data)
           IN  IF SimAnalysisError(profile) # "none"
               THEN exception_result(id, SimAnalysisError(profile))
               ELSE LET intelligence == simulate_business_analysis(profile)
                        sources      == simulate_funding_research(profile, intelligence)
                        found        == simulate_recommendation_matching(
                                           intelligence, sources, profile)
                    IN  success_result(id, format_recommendations(found, profile),
                                       sources)

\* the source list and the match list the agents return for a profile when no
\* other call is in progress
SourcesAlone(profile) ==
  research_funding_sources(initial_funding_database, _get_current_market_conditions,
                           profile, analyze_business(profile))

MatchesAlone(profile) ==
  generate_matches(analyze_business(profile), SourcesAlone(profile), profile)

\* the results a caller holds are those of its calls run alone
HoldsOwnResults(call) ==
  /\ (call.pc = "returned") => call.result = EnvelopeAlone(call.business_data)
  /\ (call.agent_pc \in {"researched", "matched"}) =>
        call.agent_sources = SourcesAlone(call.agent_profile)
  /\ (call.agent_pc = "matched") =>
        call.agent_matches = MatchesAlone(call.agent_profile)

\* C18: with two callers whose steps interleave in any order, each caller gets
\* the envelope (and, from the agents, the source list and the match list) that
\* its request gets when it is processed alone, and no step changes the
\* funding_database or the market_conditions that both read.
C18_ConcurrentCallsIndependent ==
  /\ HoldsOwnResults([pc |-> pc, result |-> result, business_data |-> business_data,
                      agent_pc |-> agent_pc, agent_profile |-> agent_profile,
                      agent_sources |-> agent_sources, agent_matches |-> agent_matches])
  /\ HoldsOwnResults(other)
  /\ funding_database = initial_funding_database
  /\ market_conditions = _get_current_market_conditions

\* the second caller got its envelope for Scenario B while the first caller's
\* Scenario A request was between its research and its formatting step
C18_Witness ==
  /\ pc \in {"matching", "format"}
  /\ business_data = ScenarioA
  /\ other.pc = "returned"
  /\ other.business_data = ScenarioB
  /\ other.steps = <<"analysis", "research", "matching">>
  /\ other.result.success = TRUE

\* the four dimension scores of a match score are in [0, 1]
DimensionsInUnit(c, p, m, s) ==
  \A x \in {c, p, m, s} : 0 <= x /\ x <= U7

\* C19: SCORING_WEIGHTS has the four entries compatibility 0.40,
\* approval_probability 0.35, commercial_value 0.15 and strategic_fit 0.10,
\* which add up to 1.0; an overall_score computed from four dimension scores
\* in [0, 1], by the Matcher or by the Orchestrator's matching step, is in
\* [0, 1].
C19_WeightsSumToOne ==
  /\ DOMAIN SCORING_WEIGHTS =
        {"compatibility", "approval_probability", "commercial_value", "strategic_fit"}
  /\ SCORING_WEIGHTS.compatibility = 40
  /\ SCORING_WEIGHTS.approval_probability = 35
  /\ SCORING_WEIGHTS.commercial_value = 15
  /\ SCORING_WEIGHTS.strategic_fit = 10
  /\ SCORING_WEIGHTS.compatibility + SCORING_WEIGHTS.approval_probability
        + SCORING_WEIGHTS.commercial_value + SCORING_WEIGHTS.strategic_fit = 100
  /\ (agent_pc \in {"researched", "matched"}
        /\ ~MatcherRaises(agent_intelligence, agent_sources, agent_profile)) =>
        \A i \in 1..Len(agent_sources) :
           LET score == _calculate_match_score(agent_intelligence, agent_sources[i],
                                               agent_profile)
           IN  DimensionsInUnit(score.compatibility, score.approval_probability,
                                score.commercial_value, score.strategic_fit) =>
                  (0 <= score.overall_score /\ score.overall_score <= U9)
  /\ (pc = "format") =>
        \A i \in 1..Len(matches) :
           DimensionsInUnit(matches[i].compatibility, matches[i].probability,
                            matches[i].commercial, matches[i].strategic) =>
              (0 <= matches[i].overall_score /\ matches[i].overall_score <= U9)

\* a source scored with a compatibility of 1.0, the upper end of the range
C19_Witness ==
  /\ pc = "format"
  /\ Len(matches) >= 1
  /\ matches[1].compatibility = U7
  /\ DimensionsInUnit(matches[1].compatibility, matches[1].probability,
                      matches[1].commercial, matches[1].strategic)
  /\ matches[1].overall_score > 0

\* the sources of the caller's list that reach the threshold
QualifyingSources ==
  { agent_sources[i] : i \in { j \in 1..Len(agent_sources) :
                                  AgentScore(agent_sources[j]) >= MIN_MATCH_SCORE } }

\* the overall_score, before rounding, behind the k-th returned match
ReturnedScore(k) ==
  AgentScore(CHOOSE source \in QualifyingSources :
                source.source_id = agent_matches[k].source_id)

\* how often a source is in the caller's list, and in the returned list
TimesListed(source) ==
  Cardinality({ i \in 1..Len(agent_sources) : agent_sources[i] = source })

TimesReturned(source) ==
  Cardinality({ k \in 1..Len(agent_matches) :
                  agent_matches[k].source_id = source.source_id })

\* C20: the list generate_matches returns is in descending order of
\* overall_score and holds qualifying sources only, each at most as often as it
\* was passed, at most DIVERSITY_REQUIREMENT of one funding_type and at most
\* MAX_RECOMMENDATIONS in all.  A qualifying source is missing from it only if two returned
\* matches of its funding_type score at least as high (the diversity cap,
\* DIVERSITY_REQUIREMENT), or MAX_RECOMMENDATIONS matches are returned and all
\* score at least as high (the truncation, applied after the diversity loop).
C20_DiversifyThenTruncate ==
  (agent_pc = "matched"
     /\ ~MatcherRaises(agent_intelligence, agent_sources, agent_profile)) =>
     /\ \A k \in 1..Len(agent_matches) :
           \E source \in QualifyingSources :
              /\ source.source_id = agent_matches[k].source_id
              /\ source.type = agent_matches[k].funding_type
     /\ \A k \in 1..(Len(agent_matches) - 1) : ReturnedScore(k) >= ReturnedScore(k + 1)
     /\ Len(agent_matches) <= MAX_RECOMMENDATIONS
     /\ \A k \in 1..Len(agent_matches) :
           TypeCount(agent_matches, agent_matches[k].funding_type) <= DIVERSITY_REQUIREMENT
     /\ \A source \in QualifyingSources :
           /\ TimesReturned(source) <= TimesListed(source)
           /\ (TimesReturned(source) < TimesListed(source)) =>
                 \/ Cardinality({ k \in 1..Len(agent_matches) :
                       /\ agent_matches[k].funding_type = source.type
                       /\ ReturnedScore(k) >= AgentScore(source) })
                      >= DIVERSITY_REQUIREMENT
                 \/ /\ Len(agent_matches) = MAX_RECOMMENDATIONS
                    /\ \A k \in 1..Len(agent_matches) :
                          ReturnedScore(k) >= AgentScore(source)

\* six matches passed the diversity loop and the list was cut to five: a
\* qualifying source is missing although fewer than two matches of its type
\* were returned
C20_Witness ==
  /\ agent_pc = "matched"
  /\ Len(agent_sources) = 6
  /\ Len(agent_matches) = MAX_RECOMMENDATIONS
  /\ \E source \in QualifyingSources :
        /\ TimesReturned(source) = 0
        /\ TypeCount(agent_matches, source.type) < DIVERSITY_REQUIREMENT

(***************************************************************************)
(* Order of the returned lists                                             *)
(***************************************************************************)
\* C21: recommendations are returned in non-increasing order of score, and
\* the recommendation at position i of the response has rank i.  For the
\* Orchestrator the rank field of the i-th recommendation is i, and both its
\* match_score and the overall_score behind it do not increase along the
\* list; the list generate_matches returns, whose entries carry no rank field
\* and are ranked by position, does not increase in overall_score.
C21_RankIsPositionByScore ==
  /\ (pc = "returned" /\ result.success = TRUE) =>
        /\ \A i \in 1..Len(result.recommendations) :
              result.recommendations[i].rank = i
        /\ \A i \in 1..(Len(result.recommendations) - 1) :
              /\ result.recommendations[i].match_score
                    >= result.recommendations[i + 1].match_score
              /\ matches[i].overall_score >= matches[i + 1].overall_score
  /\ agent_pc = "matched" =>
        \A k \in 1..(Len(agent_matches) - 1) :
           agent_matches[k].overall_score >= agent_matches[k + 1].overall_score

\* an envelope with three recommendations of three different scores, from
\* sources that are not in that order in the simulated list
C21_Witness ==
  /\ pc = "returned" /\ result.success = TRUE
  /\ Len(result.recommendations) = 3
  /\ result.recommendations[1].match_score > result.recommendations[2].match_score
  /\ result.recommendations[2].match_score > result.recommendations[3].match_score
  /\ \E i, j \in 1..Len(available_sources) :
        /\ i < j
        /\ available_sources[i].name = result.recommendations[2].funding_source
        /\ available_sources[j].name = result.recommendations[1].funding_source

(***************************************************************************)
(* The catalog during a request                                            *)
(***************************************************************************)
\* the three keys _apply_market_conditions sets
MarketKeys == {"market_appetite", "sector_market_status", "market_adjusted_timeline"}

\* a dict without the market keys
WithoutMarketKeys(source) == [k \in DOMAIN source \ MarketKeys |-> source[k]]

\* C22: a request does not modify the funding-source catalog or the market
\* conditions.  No step of process_recommendation_request, analyze_business,
\* research_funding_sources or generate_matches leaves the catalog or the
\* market conditions different from what __init__ built; no catalog entry
\* carries market_appetite, sector_market_status or market_adjusted_timeline;
\* and every source the main path of research_funding_sources returned
\* carries the three, and is, apart from them, equal to one catalog entry.
C22_RequestLeavesCatalogAlone ==
  /\ funding_database = initial_funding_database
  /\ market_conditions = _get_current_market_conditions
  /\ \A i \in 1..Len(funding_database) : DOMAIN funding_database[i] \cap MarketKeys = {}
  /\ (agent_pc \in {"researched", "matched"}
        /\ ~EligibilityRaises(funding_database, agent_profile)) =>
        \A k \in 1..Len(agent_sources) :
           /\ MarketKeys \subseteq DOMAIN agent_sources[k]
           /\ \E i \in 1..Len(funding_database) :
                 funding_database[i] = WithoutMarketKeys(agent_sources[k])

\* generate_matches has returned matches for a list of annotated sources,
\* each of which differs from its catalog entry by the three keys
C22_Witness ==
  /\ agent_pc = "matched"
  /\ Len(agent_sources) >= 2
  /\ Len(agent_matches) >= 2
  /\ \A k \in 1..Len(agent_sources) :
        /\ MarketKeys \subseteq DOMAIN agent_sources[k]
        /\ \E i \in 1..Len(funding_database) :
              /\ funding_database[i].source_id = agent_sources[k].source_id
              /\ funding_database[i] # agent_sources[k]

(***************************************************************************)
(* refresh_market_data                                                     *)
(***************************************************************************)
\* the keys refresh_market_data may write on a catalog entry
RefreshedKeys == {"current_appetite", "last_updated"}

\* C23: refresh_market_data changes, on catalog entries, only current_appetite
\* and last_updated, keeps the number and the order of the entries, and
\* regenerates the market conditions; no call of analyze_business,
\* research_funding_sources or generate_matches runs it.  Every step keeps the
\* length of the catalog, the keys of every entry and the value of every key
\* but the two; the market conditions after a step are the ones
\* _get_current_market_conditions builds; and a step of one of the three
\* agents' calls changes neither the catalog nor the market conditions.
C23_RefreshWritesAppetiteAndDate ==
  [][ /\ Len(funding_database') = Len(funding_database)
      /\ \A i \in 1..Len(funding_database) :
            /\ DOMAIN funding_database'[i] = DOMAIN funding_database[i]
            /\ \A k \in DOMAIN funding_database[i] \ RefreshedKeys :
                  funding_database'[i][k] = funding_database[i][k]
            /\ funding_database'[i].current_appetite
                  \in { appetites[a] : a \in 1..Len(appetites) }
      /\ market_conditions' = _get_current_market_conditions
      /\ (agent_vars' # agent_vars) =>
            (funding_database' = funding_database
               /\ market_conditions' = market_conditions) ]_vars

\* a refresh has given Barclays an appetite it did not have and every entry
\* the new date, and a research call on the refreshed catalog has returned
C23_Witness ==
  /\ agent_pc = "researched"
  /\ Len(agent_sources) >= 2
  /\ funding_database[1].current_appetite = "cautious"
  /\ \A i \in 1..Len(funding_database) : funding_database[i].last_updated = Days[2]
  /\ \E k \in 1..Len(agent_sources) :
        /\ agent_sources[k].source_id = funding_database[1].source_id
        /\ agent_sources[k].current_appetite = "cautious"

(***************************************************************************)
(* The intelligence filter                                                 *)
(***************************************************************************)
\* the caller holds what the main path of research_funding_sources returned
OnResearchMainPath ==
  /\ agent_pc \in {"researched", "matched"}
  /\ ~EligibilityRaises(funding_database, agent_profile)

\* C24: the intelligence filter keeps a source only if its type accepts the
\* risk_level of the business (bank_loan and asset_finance accept low only,
\* government_grant and family_office low or medium, angel_investment,
\* venture_capital and crowdfunding any) and funding_readiness is at least 0.4
\* for bank_loan and asset_finance, at least 0.6 for every other type; so a
\* business of medium or high risk gets no bank_loan or asset_finance source
\* from the main path of research_funding_sources.
C24_IntelligenceFilter ==
  OnResearchMainPath =>
     LET risk_level == agent_intelligence.business_profile.risk_level
         readiness  == agent_intelligence.business_profile.funding_readiness
     IN  \A k \in 1..Len(agent_sources) :
            LET type == agent_sources[k].type
            IN  /\ type \in {"bank_loan", "asset_finance"} => risk_level = "low"
                /\ type \in {"government_grant", "family_office"}
                      => risk_level \in {"low", "medium"}
                /\ type \in {"angel_investment", "venture_capital", "crowdfunding"}
                      => risk_level \in {"low", "medium", "high"}
                /\ readiness >= (IF type \in {"bank_loan", "asset_finance"}
                                 THEN 4 * (U5 \div 10) ELSE 6 * (U5 \div 10))

\* a business of medium risk for which a bank_loan or asset_finance source
\* passed the eligibility filter, and which got other sources only
C24_Witness ==
  /\ OnResearchMainPath
  /\ agent_intelligence.business_profile.risk_level = "medium"
  /\ \E i \in 1..Len(funding_database) :
        /\ funding_database[i].type \in {"bank_loan", "asset_finance"}
        /\ IsEligible(funding_database[i], agent_profile)
  /\ Len(agent_sources) >= 1
  /\ \A k \in 1..Len(agent_sources) :
        agent_sources[k].type \notin {"bank_loan", "asset_finance"}

(***************************************************************************)
(* The overall risk                                                        *)
(***************************************************************************)
\* the sector, geographic and financial ratings of the caller's profile
Ratings ==
  << _assess_sector_risk(agent_profile.sector),
     _assess_geographic_risk(agent_profile.location),
     _assess_financial_risk(agent_profile) >>

\* how many of the three ratings have this value
RatingCount(rating) == Cardinality({ i \in 1..3 : Ratings[i] = rating })

\* C25: the overall risk is the band of the mean of the sector, geographic
\* and financial ratings on the scale low = 1, medium = 2, high = 3: low for a
\* mean of at most 1.5, medium for at most 2.5, high above; so it is low
\* exactly when at most one rating is medium and none is high, and high
\* exactly when at least two ratings are high and none is low.
C25_OverallRiskByMean ==
  (agent_pc = "analyzed" /\ ~AnalyzerRaises(agent_profile)) =>
     LET risk_level == agent_intelligence.business_profile.risk_level
         total      == RatingCount("low") + 2 * RatingCount("medium")
                       + 3 * RatingCount("high")
     IN  /\ risk_level = (IF 10 * total <= 15 * 3 THEN "low"
                          ELSE IF 10 * total <= 25 * 3 THEN "medium"
                          ELSE "high")
         /\ risk_level = "low"
               <=> (RatingCount("medium") <= 1 /\ RatingCount("high") = 0)
         /\ risk_level = "high"
               <=> (RatingCount("high") >= 2 /\ RatingCount("low") = 0)

\* two high ratings and a low one: the mean is 7/3 and the overall risk medium
C25_Witness ==
  /\ agent_pc = "analyzed" /\ ~AnalyzerRaises(agent_profile)
  /\ RatingCount("high") = 2 /\ RatingCount("low") = 1
  /\ agent_intelligence.business_profile.risk_level = "medium"

(***************************************************************************)
(* The market adjustment                                                   *)
(***************************************************************************)
\* the lending_appetite entry that speaks of a category of sources; the other
\* categories of the catalog (equity_investment, alternative_funding,
\* private_wealth) have no entry that names them
LendingAppetiteOf(category, market) ==
  CASE category = "traditional_banking" -> market.lending_appetite.traditional_banks
    [] category = "alternative_lending" -> market.lending_appetite.alternative_lenders
    [] category = "government_funding"  -> market.lending_appetite.government
    [] OTHER                            -> "neutral"

\* C26: every source the main path of research_funding_sources returns is
\* annotated with the current lending appetite of its category, and its
\* market_adjusted_timeline follows from it: min + 1 and max + 3 weeks when
\* the appetite is selective or the sector status cold, min - 1 (not below 1)
\* and max - 2 (not below the new min) when the appetite is aggressive and the
\* sector status hot, the approval_timeline otherwise.
C26_TimelineFollowsAppetite ==
  OnResearchMainPath =>
     \A k \in 1..Len(agent_sources) :
        LET source   == agent_sources[k]
            appetite == LendingAppetiteOf(source.category, market_conditions)
            status   == source.sector_market_status
            timeline == source.approval_timeline
        IN  /\ source.market_appetite = appetite
            /\ source.market_adjusted_timeline =
                  IF appetite = "aggressive" /\ status = "hot"
                  THEN [min |-> Max(1, timeline.min - 1),
                        max |-> Max(Max(1, timeline.min - 1), timeline.max - 2)]
                  ELSE IF appetite = "selective" \/ status = "cold"
                  THEN [min |-> timeline.min + 1, max |-> timeline.max + 3]
                  ELSE timeline

(***************************************************************************)
(* The debt ratio check                                                    *)
(***************************************************************************)
\* C27: whatever analyze_business returned, main path or fallback, and
\* whatever debt_to_equity the financials of the profile hold, the
\* intelligence record has no debt_to_equity entry, so the debt ratio check of
\* _meets_financial_requirements compares 1.0 with max_debt_ratio, and no
\* catalog source is rejected by it: every max_debt_ratio, given or defaulted
\* to 5.0, is at least 1.0, and a source meets the financial requirements
\* exactly when funding_readiness reaches the threshold of its type.
C27_DebtCheckRejectsNothing ==
  agent_pc \in {"analyzed", "researched", "matched"} =>
     /\ "debt_to_equity" \notin DOMAIN agent_intelligence.funding_indicators
     /\ \A i \in 1..Len(funding_database) :
           LET source == funding_database[i]
           IN  /\ Get(source, "max_debt_ratio", 50) >= 10
               /\ _meets_financial_requirements(source, agent_intelligence)
                     <=> agent_intelligence.business_profile.funding_readiness
                            >= (IF source.type \in {"bank_loan", "asset_finance"}
                                THEN 4 * (U5 \div 10) ELSE 6 * (U5 \div 10))

\* the financials hold a debt_to_equity of 6.0 and the Barclays loan, whose
\* max_debt_ratio is 2.5, is among the sources returned
C27_Witness ==
  /\ agent_pc = "researched"
  /\ "debt_to_equity" \notin agent_profile.financials.absent
  /\ agent_profile.financials.debt_to_equity = 60
  /\ \E k \in 1..Len(agent_sources) :
        /\ agent_sources[k].source_id = "barclays_business_loan"
        /\ agent_sources[k].max_debt_ratio = 25

(***************************************************************************)
(* Research after a fallback analysis                                      *)
(***************************************************************************)
\* C28: when analyze_business has returned its fallback record (risk_level
\* medium, funding_readiness 0.4), the main path of research_funding_sources
\* returns an empty list, whatever the profile: the intelligence filter lets
\* no catalog source through, a bank_loan or asset_finance source for the risk
\* tolerance of its type, a source of any other type for the readiness
\* threshold of 0.6.
C28_FallbackAnalysisGetsNoSource ==
  (OnResearchMainPath /\ AnalyzerRaises(agent_profile)) =>
     /\ agent_intelligence.business_profile.risk_level = "medium"
     /\ agent_intelligence.business_profile.funding_readiness = 4 * (U5 \div 10)
     /\ agent_sources = <<>>
     /\ \A i \in 1..Len(funding_database) :
           LET source == funding_database[i]
           IN  /\ _filter_by_intelligence(<<source>>, agent_intelligence) = <<>>
               /\ IF source.type \in {"bank_loan", "asset_finance"}
                  THEN ~_is_risk_compatible(_get_source_risk_tolerance(source),
                           agent_intelligence.business_profile.risk_level)
                  ELSE ~_meets_financial_requirements(source, agent_intelligence)

\* the analysis fell back, the research did not, and sources of both kinds
\* had passed the eligibility filter
C28_Witness ==
  /\ agent_pc = "researched"
  /\ AnalyzerRaises(agent_profile)
  /\ ~EligibilityRaises(funding_database, agent_profile)
  /\ \E i, j \in 1..Len(funding_database) :
        /\ IsEligible(funding_database[i], agent_profile)
        /\ IsEligible(funding_database[j], agent_profile)
        /\ funding_database[i].type = "bank_loan"
        /\ funding_database[j].type \notin {"bank_loan", "asset_finance"}
  /\ agent_sources = <<>>

(***************************************************************************)
(* Eligible sources in the Matcher                                         *)
(***************************************************************************)
\* C29: for every catalog source that passes _filter_by_eligibility for a
\* profile, the Matcher's sector compatibility for that profile is 1.0, its
\* geographic compatibility 1.0 and its amount compatibility 0.8 or 1.0; the
\* lower values occur for sources that did not pass the filter, such as the
\* sources of _get_fallback_sources, whose sector compatibility is 0.3.
C29_EligibleSourcesFitFully ==
  /\ (agent_pc \in {"analyzed", "researched", "matched"}
        /\ ~EligibilityRaises(funding_database, agent_profile)) =>
        \A i \in 1..Len(funding_database) :
           LET source == funding_database[i]
           IN  IsEligible(source, agent_profile) =>
                  /\ _assess_sector_compatibility(source, agent_profile) = U5
                  /\ _assess_geographic_compatibility(source, agent_profile) = U5
                  /\ _assess_amount_compatibility(source, agent_profile.funding_amount)
                        \in {8 * (U5 \div 10), U5}
  /\ OnResearchMainPath =>
        \A k \in 1..Len(agent_sources) :
           /\ _assess_sector_compatibility(agent_sources[k], agent_profile) = U5
           /\ _assess_geographic_compatibility(agent_sources[k], agent_profile) = U5
           /\ _assess_amount_compatibility(agent_sources[k], agent_profile.funding_amount)
                 \in {8 * (U5 \div 10), U5}
  /\ (agent_pc \in {"researched", "matched"}
        /\ EligibilityRaises(funding_database, agent_profile)) =>
        \A k \in 1..Len(agent_sources) :
           _assess_sector_compatibility(agent_sources[k], agent_profile) = 3 * (U5 \div 10)

\* generate_matches has scored a list from the main path that holds a source
\* with an amount compatibility of 0.8 and one with 1.0, while a catalog
\* source that did not pass the filter has an amount compatibility of 0.0
C29_Witness ==
  /\ agent_pc = "matched"
  /\ ~EligibilityRaises(funding_database, agent_profile)
  /\ \E j, k \in 1..Len(agent_sources) :
        /\ _assess_amount_compatibility(agent_sources[j], agent_profile.funding_amount)
              = 8 * (U5 \div 10)
        /\ _assess_amount_compatibility(agent_sources[k], agent_profile.funding_amount)
              = U5
  /\ \E i \in 1..Len(funding_database) :
        /\ ~IsEligible(funding_database[i], agent_profile)
        /\ _assess_amount_compatibility(funding_database[i], agent_profile.funding_amount)
              = 0

(***************************************************************************)
(* Research before and after a refresh                                     *)
(***************************************************************************)
\* what research_funding_sources returns for the caller's profile and
\* intelligence record on the catalog and market conditions __init__ built
UnrefreshedSources ==
  research_funding_sources(initial_funding_database, _get_current_market_conditions,
                           agent_profile, agent_intelligence)

\* a dict without the two keys a refresh writes
WithoutRefreshedKeys(source) == [k \in DOMAIN source \ RefreshedKeys |-> source[k]]

\* C30: for a fixed profile and intelligence record, refresh_market_data
\* calls do not change which sources research_funding_sources returns: the
\* list returned after any refreshes holds the same source_ids, each once, as
\* the list returned without a refresh, and each source differs from its
\* unrefreshed counterpart in current_appetite and last_updated at most, so
\* its market_adjusted_timeline is the same; only the order may differ.
C30_RefreshKeepsResearchResult ==
  agent_pc \in {"researched", "matched"} =>
     /\ Len(agent_sources) = Len(UnrefreshedSources)
     /\ \A k \in 1..Len(agent_sources) :
           \E j \in 1..Len(UnrefreshedSources) :
              /\ UnrefreshedSources[j].source_id = agent_sources[k].source_id
              /\ WithoutRefreshedKeys(UnrefreshedSources[j])
                    = WithoutRefreshedKeys(agent_sources[k])
     /\ \A j, k \in 1..Len(agent_sources) :
           agent_sources[j].source_id = agent_sources[k].source_id => j = k

\* after a refresh that changed an appetite, the research returned the same
\* sources in another order
C30_Witness ==
  /\ agent_pc = "researched"
  /\ funding_database # initial_funding_database
  /\ Len(agent_sources) >= 2
  /\ \E k \in 1..Len(agent_sources) :
        agent_sources[k].source_id # UnrefreshedSources[k].source_id

============================================================================
